---- MODULE Spec2Model ----
(***************************************************************************)
(* Save/load subsystem of the isometric RPG: GameMemento, GameOriginator,  *)
(* GameCaretaker (patterns/behavioral/Memento/GameMemento.ts) and the      *)
(* SaveLoadService facade (domain/service/SaveLoadService.ts).             *)
(*                                                                         *)
(* Objects of the JavaScript heap that are shared by reference are kept in *)
(* `heap`: one cell per GameState object graph below the top level (the    *)
(* player, map and inventory sub-objects of one GameState are allocated    *)
(* together and always travel together through the spread copies           *)
(* `{ ...state }`, so one cell holds the three of them).  A top-level      *)
(* GameState is a record [nested, timestamp]; copying it with a spread     *)
(* copies the reference `nested`, not the cell.                            *)
(***************************************************************************)
EXTENDS Integers, Sequences, FiniteSets, TLC

VARIABLES
  now,               \* Date.now()
  heap,              \* Seq of cells: the nested objects of every GameState
  curState,          \* GameOriginator.currentState (NoState = null)
  mementos,          \* GameCaretaker.mementos, in Map insertion order
  maxSaves,          \* GameCaretaker.maxSaves
  autoSaveInterval,  \* GameCaretaker.autoSaveInterval
  lastAutoSave,      \* GameCaretaker.lastAutoSave
  nextId,            \* supply of fresh save ids (generateSaveId)
  rt,                \* result of the last fromJSON(m.toJSON()) a client made
  last,              \* the last call and what it returned
  storage,           \* localStorage item 'isorpg_saves' (NoItem = null)
  svcEnabled,        \* SaveLoadService.isEnabled
  svcAutoSaveEnabled,   \* SaveLoadService.autoSaveEnabled
  svcAutoSaveInterval,  \* SaveLoadService.autoSaveInterval
  svcLastAutoSave,   \* SaveLoadService.lastAutoSave
  playerPos,         \* the live player's PositionComponent (x, y, z)
  calls,             \* the service calls in flight, per caller
  sysPlayer,         \* SaveLoadSystem.player is set
  sysMap,            \* SaveLoadSystem.map is set
  sysTimer,          \* SaveLoadSystem.autoSaveTimer
  sysInterval,       \* SaveLoadSystem.autoSaveInterval
  sysEnabled,        \* SaveLoadSystem.isEnabled
  sysLast,           \* the last call or event of the system: did autoSave() run
  mgrInitialized,    \* SaveLoadManager.isInitialized
  mgrSaves,          \* mementos of the caretaker of SaveLoadManager.saveLoadService
  mgrSvcInterval,    \* autoSaveInterval of SaveLoadManager.saveLoadService
  mgrLast,           \* the last call on the manager and what it returned
  busListeners,      \* EventBus.listeners.get(topic): the callbacks, in order
  busPc,             \* "idle", or "emit" while emit(topic) runs its forEach
  busIdx,            \* index of the forEach (from 1)
  busLen,            \* length of the array when the forEach began
  busSnap,           \* the callbacks subscribed when emit was called
  busCalled,         \* the callbacks this emit has invoked, in order
  busThrew,          \* the callbacks that threw during this emit
  mvMap,             \* Map: the tile type at each cell
  mvEdits,           \* number of Map.setTileAt calls so far
  mvEnabled,         \* MovementService.isEnabled
  playerDir,         \* the player's AnimationComponent direction
  playerAnim,        \* the player's AnimationComponent animation type
  mvLast,            \* the last movement call and what it returned
  cmd,               \* a held MovementCommand: direction, previousPosition
  inQueue,           \* InputManager.commandQueue
  inProcessing,      \* InputManager.isProcessing
  inResults,         \* the results list of the executeCommands in progress
  inLast,            \* the last call on the InputManager and what it returned
  anim,              \* AnimationComponent._currentState
  animLastFrameTime, \* AnimationComponent._lastFrameTime
  animClock,         \* the time the caller last passed to update
  animLast,          \* the last call on the component, and the frame
                     \* advances since the frame was last set to 0
  asSince,           \* AnimationSystem: currentTime - lastUpdateTime, in ms
  asSpeed,           \* AnimationSystem.animationSpeed
  asEntities,        \* AnimationSystem.entities holds the player
  asActive,          \* AnimationSystem.activeAnimations holds the player
  asMoved,           \* a player:moved event has reached the system
  asEvents,          \* the animation events the system has emitted
  invItems,          \* InventoryComponent._items, by item id
  invNewItems,       \* InventoryComponent._newItems, in insertion order
  invMaxCapacity,    \* InventoryComponent._maxCapacity
  invGold,           \* InventoryComponent._gold
  invLast,           \* the last call on the component, what it returned
                     \* and the inventory events it emitted
  decRequest,        \* the item and the enhancements last given to
                     \* ItemDecoratorFactory.createEnhancedItem
  decItem,           \* the item that call returned
  fwFlyweights,      \* TileFlyweightFactory.flyweights: the object held for
                     \* each tile type, 0 for a type that is not a key
  fwNextId,          \* the identity of the next TileFlyweight object
  fwReturned,        \* the objects getFlyweight has returned, by type
  fwSince,           \* the same, since the last clear
  cmpLayers,         \* Map._children: the layers, each the list of its
                     \* TileComponents in insertion order
  cmpLast,           \* the last call on the Map and what it returned
  svcEvents,         \* the saveLoad:event types that the observed service
                     \* call published, in order
  svcWriteOk,        \* whether localStorage took writes during that call
  heldCmds,          \* the movement commands a caller holds, each with its
                     \* direction and previousPosition
  heldStart,         \* whether the player stood on a walkable cell of the
                     \* map when the caller made its first command:
                     \* "walkable" or "other", "unset" before that
  casListeners,      \* the handlers subscribed to each saveLoad topic of
                     \* the event bus, in the order they subscribed
  casStack,          \* the emit calls in progress, outermost first, each
                     \* with its topic and the listener it calls next
  casCount           \* how many events each topic has carried since the
                     \* service's last emit began

ctVars == <<curState, mementos, maxSaves, autoSaveInterval, lastAutoSave,
            nextId>>
svcVars == <<storage, svcEnabled, svcAutoSaveEnabled, svcAutoSaveInterval,
             svcLastAutoSave, playerPos>>
\* The variables that the caretaker and the service never touch.
callVars == <<calls>>
sysVars == <<sysPlayer, sysMap, sysTimer, sysInterval, sysEnabled, sysLast>>
mgrVars == <<mgrInitialized, mgrSaves, mgrSvcInterval, mgrLast>>
busVars == <<busListeners, busPc, busIdx, busLen, busSnap, busCalled, busThrew>>
mvVars == <<mvMap, mvEdits, mvEnabled, playerDir, playerAnim, mvLast>>
cmdVars == <<cmd, inQueue, inProcessing, inResults, inLast>>
animVars == <<anim, animLastFrameTime, animClock, animLast>>
asVars == <<asSince, asSpeed, asEntities, asActive, asMoved, asEvents>>
invVars == <<invItems, invNewItems, invMaxCapacity, invGold, invLast>>
decVars == <<decRequest, decItem>>
fwVars == <<fwFlyweights, fwNextId, fwReturned, fwSince>>
cmpVars == <<cmpLayers, cmpLast>>
evVars == <<svcEvents, svcWriteOk>>
heldVars == <<heldCmds, heldStart>>
casVars == <<casListeners, casStack, casCount>>
lateVars == <<decVars, fwVars, cmpVars, evVars, heldVars, casVars>>
restVars == <<cmdVars, animVars, asVars, lateVars, invVars>>
farVars == <<callVars, sysVars, mgrVars, busVars, mvVars, restVars>>
memVars == <<now, heap, ctVars, rt, last, svcVars>>
vars == <<memVars, farVars>>
earlyVars == <<memVars, callVars, sysVars, mgrVars, busVars, mvVars, cmdVars,
               animVars, asVars, invVars>>
exceptDec == <<earlyVars, fwVars, cmpVars, evVars, heldVars, casVars>>
exceptFw == <<earlyVars, decVars, cmpVars, evVars, heldVars, casVars>>
exceptCmp == <<earlyVars, decVars, fwVars, evVars, heldVars, casVars>>
exceptCas == <<earlyVars, decVars, fwVars, cmpVars, evVars, heldVars>>
exceptEv == <<callVars, sysVars, mgrVars, busVars, mvVars, cmdVars, animVars,
              asVars, invVars, decVars, fwVars, cmpVars, heldVars, casVars>>
exceptHeld == <<now, heap, ctVars, rt, last, storage, svcEnabled,
                svcAutoSaveEnabled, svcAutoSaveInterval, svcLastAutoSave,
                callVars, sysVars, mgrVars, busVars, cmdVars, animVars, asVars,
                invVars, decVars, fwVars, cmpVars, evVars, casVars, mvMap,
                mvEdits, mvEnabled>>
\* What the callers of the service, and what the system, leave alone.
exceptCalls == <<sysVars, mgrVars, busVars, mvVars, restVars>>
exceptSys == <<callVars, mgrVars, busVars, mvVars, restVars>>
exceptMgr == <<callVars, busVars, mvVars, restVars>>
exceptBus == <<memVars, callVars, sysVars, mgrVars, mvVars, restVars>>
exceptMvQueue == <<lateVars, invVars, cmd, inProcessing, inResults, inLast,
                    animVars, asVars, now, heap, ctVars, rt, last, storage,
                    svcEnabled, svcAutoSaveEnabled, svcAutoSaveInterval,
                    svcLastAutoSave, callVars, sysVars, mgrVars, busVars>>
exceptMv == <<exceptMvQueue, inQueue>>

(***************************************************************************)
(* Bounds of the model.                                                    *)
(***************************************************************************)
MaxTicks == 2
MaxIds == 3
MaxCells == 2
MaxImportLen == 2
MaxCallers == 2
MaxHandlers == 3
MapWidth == 2
MapHeight == 2
MaxTileEdits == 1
MaxQueue == 2
MaxResults == 3
MaxUpdates == 5
MaxCapacity == 2
MaxGold == 2
MaxStack == 2
MaxFlyweights == 5
MaxLayers == 2
MaxCommands == 2
MaxSystems == 3
MaxManagers == 2
MaxDepth == 4
MaxTiles == 2

(***************************************************************************)
(* Program constants.                                                      *)
(***************************************************************************)
DefaultMaxSaves == 10
DefaultAutoSaveInterval == 300000
MinAutoSaveInterval == 60000
MinMaxSaves == 1
OriginatorVersion == "1.0.0"
DefaultMementoVersion == "1.0.0"
AutoSaveName == "Auto Save"

\* The clock advances in steps of half the default interval (more than the
\* least interval, less than the default one), from a time at which the
\* first auto-save is due (Date.now() is far beyond five minutes).
TickMs == DefaultAutoSaveInterval \div 2
StartTime == 2 * DefaultAutoSaveInterval
EndTime == StartTime + MaxTicks * TickMs

(***************************************************************************)
(* Values.                                                                 *)
(***************************************************************************)
NoPos == <<>>                      \* state.player is undefined
NoVal == -1                        \* state.map / state.inventory undefined
Positions == {<<6, 5, 0>>, <<0, 0, 0>>}
UndefVersion == "<undefined>"      \* the property is absent from the JSON
NoState == [nested |-> 0, timestamp |-> 0]
NoMemento == [id |-> 0, timestamp |-> 0, version |-> "",
              state |-> NoState,
              metadata |-> [id |-> 0, timestamp |-> 0, saveName |-> ""]]
SaveNames == {"S1"}

Min(a, b) == IF a < b THEN a ELSE b
Max(a, b) == IF a > b THEN a ELSE b
Range(s) == {s[i] : i \in 1..Len(s)}
Ids(mems) == {mems[i].id : i \in 1..Len(mems)}

\* A cell of the heap: the sub-objects of one GameState, and who built
\* them (the client that called setState, or JSON.parse).
Cell(pos, map, gold, by) == [pos |-> pos, map |-> map, gold |-> gold, by |-> by]
CellOf(h, state) == IF state.nested = 0 THEN Cell(NoPos, NoVal, NoVal, "")
                    ELSE h[state.nested]
CellValue(c) == [pos |-> c.pos, map |-> c.map, gold |-> c.gold]

(***************************************************************************)
(* GameMemento                                                             *)
(***************************************************************************)
\* new GameMemento(id, state, metadata, version): the constructor stamps the
\* time of construction on the memento, on its copy of the state and on its
\* copy of the metadata; the copies are spreads, so `nested` is shared.
NewGameMemento(id, state, metadata, version, t) ==
  [id |-> id, timestamp |-> t, version |-> version,
   state |-> [nested |-> state.nested, timestamp |-> t],
   metadata |-> [id |-> metadata.id, timestamp |-> t,
                 saveName |-> metadata.saveName]]

\* getState(): { ...this.state }
GetState(m) == [nested |-> m.state.nested, timestamp |-> m.state.timestamp]

\* getMetadata(): { ...this.metadata }
GetMetadata(m) == m.metadata

\* isValid(): truthiness of id, timestamp > 0, version, state, metadata,
\* state.player, state.map, state.inventory.
IsValid(h, m) ==
  /\ m.id # 0
  /\ m.timestamp > 0
  /\ m.version # ""
  /\ CellOf(h, m.state).pos # NoPos
  /\ CellOf(h, m.state).map # NoVal
  /\ CellOf(h, m.state).gold # NoVal

\* isCompatible(currentVersion)
IsCompatible(m, currentVersion) == m.version = currentVersion

\* toJSON(): JSON.stringify walks the whole graph, so the text holds the
\* values of the nested objects, not references to them.
ToJSON(h, m) ==
  [kind |-> "object", id |-> m.id, timestamp |-> m.timestamp,
   version |-> m.version,
   pos |-> CellOf(h, m.state).pos, map |-> CellOf(h, m.state).map,
   gold |-> CellOf(h, m.state).gold, stateTs |-> m.state.timestamp,
   metaId |-> m.metadata.id, metaTs |-> m.metadata.timestamp,
   saveName |-> m.metadata.saveName]

\* What JSON.parse(json) yields for one serialized memento: "throws" for a
\* text that is no JSON, "null" for the text `null` (property access on it
\* throws a TypeError), else the parsed object.
ParseThrows(json) == json.kind = "garbage" \/ json.kind = "null"

\* fromJSON(json): new GameMemento(data.id, data.state, data.metadata,
\* data.version) on the parsed data; an absent version takes the default of
\* the constructor; the state parsed from the text is a fresh object graph,
\* allocated at the end of the heap.
FromJSONCell(json) == Cell(json.pos, json.map, json.gold, "json")
FromJSON(h, json, t) ==
  NewGameMemento(json.id,
                 [nested |-> Len(h) + 1, timestamp |-> json.stateTs],
                 [id |-> json.metaId, timestamp |-> json.metaTs,
                  saveName |-> json.saveName],
                 IF json.version = UndefVersion THEN DefaultMementoVersion
                 ELSE json.version,
                 t)

\* The memento with every reference followed: what deep equality compares.
Deep(h, m) ==
  [id |-> m.id, timestamp |-> m.timestamp, version |-> m.version,
   state |-> [cell |-> CellValue(CellOf(h, m.state)), timestamp |-> m.state.timestamp],
   metadata |-> m.metadata]

(***************************************************************************)
(* GameOriginator                                                          *)
(***************************************************************************)
\* createMemento(saveName, player, map): throws without a current state.
CreateMementoThrows(cur) == cur = NoState
CreateMemento(cur, saveName, id, t) ==
  NewGameMemento(id, cur, [id |-> id, timestamp |-> t, saveName |-> saveName],
                 OriginatorVersion, t)

\* Variant: the version is not compared.
RestoreThrowsInvalidOnly(h, m) == ~IsValid(h, m)

\* restoreFromMemento(memento): throws on an invalid or incompatible memento.
RestoreThrows(h, m) == ~IsValid(h, m) \/ ~IsCompatible(m, OriginatorVersion)

(***************************************************************************)
(* GameCaretaker helpers                                                   *)
(***************************************************************************)
IndexOf(mems, id) ==
  IF id \in Ids(mems) THEN CHOOSE i \in 1..Len(mems) : mems[i].id = id ELSE 0

\* Map.prototype.set: an existing key keeps its place, a new key goes last.
MapSet(mems, m) ==
  IF m.id \in Ids(mems)
  THEN [mems EXCEPT ![IndexOf(mems, m.id)] = m]
  ELSE Append(mems, m)

\* Map.prototype.delete
MapDelete(mems, id) == SelectSeq(mems, LAMBDA m : m.id # id)

\* Array.prototype.sort((a, b) => a.timestamp - b.timestamp): stable.
RECURSIVE InsertByTimestamp(_, _)
InsertByTimestamp(sorted, m) ==
  IF sorted = <<>> THEN <<m>>
  ELSE IF sorted[Len(sorted)].timestamp <= m.timestamp
       THEN Append(sorted, m)
       ELSE Append(InsertByTimestamp(SubSeq(sorted, 1, Len(sorted) - 1), m),
                   sorted[Len(sorted)])

RECURSIVE SortByTimestamp(_)
SortByTimestamp(mems) ==
  IF mems = <<>> THEN <<>>
  ELSE InsertByTimestamp(SortByTimestamp(SubSeq(mems, 1, Len(mems) - 1)),
                         mems[Len(mems)])

\* Variant: removes the newest saves instead of the oldest.
CleanupNewestSaves(mems, max) ==
  IF Len(mems) <= max THEN mems
  ELSE LET saves == SortByTimestamp(mems)
           toRemove == SubSeq(saves, max + 1, Len(saves))
       IN SelectSeq(mems, LAMBDA m : m.id \notin Ids(toRemove))

\* cleanupOldSaves()
CleanupOldSaves(mems, max) ==
  IF Len(mems) <= max THEN mems
  ELSE LET saves == SortByTimestamp(mems)
           toRemove == SubSeq(saves, 1, Len(saves) - max)
       IN SelectSeq(mems, LAMBDA m : m.id \notin Ids(toRemove))

(***************************************************************************)
(* Texts a client can hand to importSaves.                                 *)
(***************************************************************************)
Entry(kind, id, version, pos) ==
  [kind |-> kind, id |-> id, timestamp |-> TickMs, version |-> version,
   pos |-> pos, map |-> 0, gold |-> 0, stateTs |-> TickMs,
   metaId |-> id, metaTs |-> TickMs, saveName |-> "S1"]

ForeignId == MaxIds + 1
ForeignValid == Entry("object", ForeignId, OriginatorVersion, <<6, 5, 0>>)
ForeignOldVersion == Entry("object", ForeignId + 1, "0.9.0", <<6, 5, 0>>)
ForeignNoVersion == Entry("object", ForeignId + 1, UndefVersion, <<0, 0, 0>>)
ForeignNoPlayer == Entry("object", ForeignId + 2, OriginatorVersion, NoPos)
ForeignNoId == Entry("object", 0, OriginatorVersion, <<6, 5, 0>>)
Garbage == Entry("garbage", 0, "", NoPos)
NullEntry == Entry("null", 0, "", NoPos)

Json(kind, items) == [kind |-> kind, items |-> items]
Unparseable == Json("unparseable", <<>>)
NotAnArray == Json("notarray", <<>>)
NoItem == Json("null", <<>>)

SeqsUpTo(S, n) == UNION {[1..k -> S] : k \in 0..n}

\* exportAllSaves(): JSON.stringify of the array of m.toJSON()
ExportAllSaves(h, mems) ==
  Json("array", [i \in 1..Len(mems) |-> ToJSON(h, mems[i])])

\* The texts offered to importSaves: broken text, a JSON value that is no
\* array, and arrays of the given entries.
ImportInputs(entries) ==
  {Unparseable, NotAnArray} \cup
  {Json("array", items) : items \in SeqsUpTo(entries, MaxImportLen)}

\* Broken text and the arrays of one entry.
SingleImports(entries) ==
  {Unparseable} \cup {Json("array", <<e>>) : e \in entries}

\* Variant: every entry that parses is stored.
ImportEntryUnchecked(st, json, t) ==
  IF ParseThrows(json) THEN st
  ELSE LET m == FromJSON(st.h, json, t)
           h2 == Append(st.h, FromJSONCell(json))
       IN [mems |-> MapSet(st.mems, m), h |-> h2]

\* The body of saves.forEach in importSaves, for one entry: fromJSON may
\* throw (caught, entry skipped); a memento that is not valid is skipped.
ImportEntry(st, json, t) ==
  IF ParseThrows(json) THEN st
  ELSE LET m == FromJSON(st.h, json, t)
           h2 == Append(st.h, FromJSONCell(json))
       IN IF IsValid(h2, m)
          THEN [mems |-> MapSet(st.mems, m), h |-> h2]
          ELSE st

RECURSIVE ImportFold(_, _, _)
ImportFold(st, items, t) ==
  IF items = <<>> THEN st
  ELSE ImportFold(ImportEntry(st, Head(items), t), Tail(items), t)

\* Variant: a text that cannot be imported leaves the saves alone.
ImportResultKeep(h, mems, max, json, t) ==
  IF json.kind # "array"
  THEN [mems |-> mems, h |-> h]
  ELSE LET st == ImportFold([mems |-> mems, h |-> h], json.items, t)
       IN [mems |-> CleanupOldSaves(st.mems, max), h |-> st.h]

\* importSaves(json): the state of the caretaker after the call.  A text
\* that is no JSON makes JSON.parse throw, a JSON value that is no array
\* makes saves.forEach throw; the outer catch resets the save set.
ImportResult(h, mems, max, json, t) ==
  IF json.kind # "array"
  THEN [mems |-> <<>>, h |-> h]
  ELSE LET st == ImportFold([mems |-> mems, h |-> h], json.items, t)
       IN [mems |-> CleanupOldSaves(st.mems, max), h |-> st.h]

(***************************************************************************)
(* Initial state: new GameOriginator(), new GameCaretaker(originator),     *)
(* new SaveLoadService() over an empty localStorage.                       *)
(***************************************************************************)
\* What a call returned: "ok", "null", "true", "false", or "throw"; the save
\* id it was about (loadGame); the entries it was given (importSaves).
ResultOf(op, res, id, arg) == [op |-> op, res |-> res, id |-> id, arg |-> arg]
Result(op, res, id) == ResultOf(op, res, id, <<>>)
NoRoundTrip == [orig |-> Deep(<<>>, NoMemento), copy |-> Deep(<<>>, NoMemento)]

Init ==
  /\ now = StartTime
  /\ heap = <<>>
  /\ curState = NoState
  /\ mementos = <<>>
  /\ maxSaves = DefaultMaxSaves
  /\ autoSaveInterval = DefaultAutoSaveInterval
  /\ lastAutoSave = 0
  /\ nextId = 1
  /\ rt = NoRoundTrip
  /\ last = Result("new", "ok", 0)
  /\ storage = NoItem
  /\ svcEnabled = TRUE
  /\ svcAutoSaveEnabled = TRUE
  /\ svcAutoSaveInterval = DefaultAutoSaveInterval
  /\ svcLastAutoSave = 0
  /\ playerPos = <<6, 5, 0>>
  /\ calls = [c \in 1..MaxCallers |-> [pc |-> "idle", op |-> "", res |-> "", id |-> 0]]
  /\ sysPlayer = FALSE
  /\ sysMap = FALSE
  /\ sysTimer = 0
  /\ sysInterval = DefaultAutoSaveInterval
  /\ sysEnabled = TRUE
  /\ sysLast = [op |-> "new", dt |-> 0, fired |-> FALSE]
  /\ mgrInitialized = FALSE
  /\ mgrSaves = <<>>
  /\ mgrSvcInterval = DefaultAutoSaveInterval
  /\ mgrLast = [op |-> "new", res |-> "ok", id |-> 0]
  /\ busListeners = <<>>
  /\ busPc = "idle"
  /\ busIdx = 0
  /\ busLen = 0
  /\ busSnap = <<>>
  /\ busCalled = <<>>
  /\ busThrew = {}
  /\ mvMap = [c \in (0..(MapWidth - 1)) \X (0..(MapHeight - 1)) |-> "grass"]
  /\ mvEdits = 0
  /\ mvEnabled = TRUE
  /\ playerDir = "south"
  /\ playerAnim = "idle"
  /\ mvLast = [op |-> "new", res |-> "null", target |-> <<>>]
  /\ cmd = [dir |-> "south", prev |-> <<>>]
  /\ inQueue = <<>>
  /\ inProcessing = FALSE
  /\ inResults = <<>>
  /\ inLast = [op |-> "new", key |-> "", st |-> "returned", res |-> <<>>, n |-> 0]
  /\ anim = [type |-> "idle", currentFrame |-> 0, totalFrames |-> 1,
             frameRate |-> 8, isLooping |-> TRUE, isPlaying |-> TRUE]
  /\ animLastFrameTime = 0
  /\ animClock = 0
  /\ animLast = [op |-> "new", due |-> FALSE, advances |-> 0, updates |-> 0]
  /\ asSince = 0
  /\ asSpeed = 8
  /\ asEntities = FALSE
  /\ asActive = FALSE
  /\ asMoved = FALSE
  /\ asEvents = {}
  /\ invItems = [id \in {"potion_health", "sword_iron"} |-> 0]
  /\ invNewItems = <<>>
  /\ invMaxCapacity = MaxCapacity
  /\ invGold = 0
  /\ invLast = [op |-> "new", item |-> "", quantity |-> 0, uid |-> 0,
                ok |-> TRUE, events |-> <<>>]
  /\ decRequest = [item |-> "", enchantment |-> [type |-> "", level |-> 0],
                   durability |-> 0, masterwork |-> FALSE, legendary |-> ""]
  /\ decItem = [decorator |-> "", item |-> "", enchantmentType |-> "",
                enchantmentLevel |-> 0, maxDurability |-> 0,
                currentDurability |-> 0]
  /\ fwFlyweights = [t \in {"grass", "forest", "water", "mountain"} |-> 0]
  /\ fwNextId = 1
  /\ fwReturned = [t \in {"grass", "forest", "water", "mountain"} |-> {}]
  /\ fwSince = [t \in {"grass", "forest", "water", "mountain"} |-> {}]
  /\ cmpLayers = <<>>
  /\ cmpLast = [op |-> "new", x |-> 0, y |-> 0, type |-> "", ok |-> TRUE]
  /\ svcEvents = <<>>
  /\ svcWriteOk = TRUE
  /\ heldCmds = <<>>
  /\ heldStart = "unset"
  /\ casListeners = [t \in {"saveLoad:event", "saveLoad:system_event",
                            "saveLoad:manager_event"} |-> <<>>]
  /\ casStack = <<>>
  /\ casCount = [t \in {"saveLoad:event", "saveLoad:system_event",
                        "saveLoad:manager_event"} |-> 0]

(***************************************************************************)
(* The clock.                                                              *)
(***************************************************************************)
Tick ==
  /\ now + TickMs <= EndTime
  /\ now' = now + TickMs
  /\ last' = Result("tick", "ok", 0)
  /\ UNCHANGED <<heap, ctVars, rt, svcVars>>
  /\ UNCHANGED farVars

(***************************************************************************)
(* GameOriginator.setState(state): the client builds a GameState (a new    *)
(* object graph) and the originator keeps a spread copy of it.             *)
(***************************************************************************)
\* The states a client builds: complete, or without the player sub-object.
StatePositions == {<<6, 5, 0>>, NoPos}

SetState(pos) ==
  /\ Len(heap) < MaxCells
  /\ heap' = Append(heap, Cell(pos, 0, 0, "client"))
  /\ curState' = [nested |-> Len(heap) + 1, timestamp |-> StartTime]
  /\ last' = Result("setState", "ok", 0)
  /\ UNCHANGED <<now, mementos, maxSaves, autoSaveInterval, lastAutoSave,
                 nextId, rt, svcVars>>
  /\ UNCHANGED farVars

(***************************************************************************)
(* GameCaretaker.saveGame(saveName, player, map)                           *)
(***************************************************************************)
SaveGameResult(mems, max, cur, saveName, id, t) ==
  CleanupOldSaves(MapSet(mems, CreateMemento(cur, saveName, id, t)), max)

SaveGame(saveName) ==
  /\ nextId <= MaxIds
  /\ IF CreateMementoThrows(curState)
     THEN /\ last' = Result("saveGame", "throw", 0)
          /\ UNCHANGED <<mementos, nextId>>
     ELSE /\ mementos' = SaveGameResult(mementos, maxSaves, curState,
                                        saveName, nextId, now)
          /\ nextId' = nextId + 1
          /\ last' = Result("saveGame", "ok", nextId)
  /\ UNCHANGED <<now, heap, curState, maxSaves, autoSaveInterval,
                 lastAutoSave, rt, svcVars>>
  /\ UNCHANGED farVars

(***************************************************************************)
(* GameCaretaker.autoSave(player, map)                                     *)
(***************************************************************************)
\* Variant: a call exactly one interval after the last one is throttled too.
AutoSaveThrottledInclusive(t, lastSave, interval) == t - lastSave <= interval

AutoSaveThrottled(t, lastSave, interval) == t - lastSave < interval

AutoSave ==
  /\ nextId <= MaxIds
  /\ IF AutoSaveThrottled(now, lastAutoSave, autoSaveInterval)
     THEN /\ last' = Result("autoSave", "null", 0)
          /\ UNCHANGED <<mementos, nextId, lastAutoSave>>
     ELSE /\ lastAutoSave' = now
          /\ IF CreateMementoThrows(curState)
             THEN /\ last' = Result("autoSave", "throw", 0)
                  /\ UNCHANGED <<mementos, nextId>>
             ELSE /\ mementos' = SaveGameResult(mementos, maxSaves, curState,
                                                AutoSaveName, nextId, now)
                  /\ nextId' = nextId + 1
                  /\ last' = Result("autoSave", "ok", nextId)
  /\ UNCHANGED <<now, heap, curState, maxSaves, autoSaveInterval, rt, svcVars>>
  /\ UNCHANGED farVars

(***************************************************************************)
(* GameCaretaker.loadGame(saveId) -> GameOriginator.restoreFromMemento     *)
(***************************************************************************)
AbsentId == 0
LoadIds(mems) == Ids(mems) \cup {AbsentId}

LoadGameThrows(h, mems, saveId) ==
  \/ saveId \notin Ids(mems)
  \/ RestoreThrows(h, mems[IndexOf(mems, saveId)])

LoadGame(saveId) ==
  /\ IF LoadGameThrows(heap, mementos, saveId)
     THEN /\ last' = Result("loadGame", "throw", saveId)
          /\ UNCHANGED curState
     ELSE /\ curState' = GetState(mementos[IndexOf(mementos, saveId)])
          /\ last' = Result("loadGame", "ok", saveId)
  /\ UNCHANGED <<now, heap, mementos, maxSaves, autoSaveInterval,
                 lastAutoSave, nextId, rt, svcVars>>
  /\ UNCHANGED farVars

(***************************************************************************)
(* GameCaretaker.deleteSave, clearSaves, setMaxSaves, setAutoSaveInterval  *)
(***************************************************************************)
DeleteSave(saveId) ==
  /\ mementos' = MapDelete(mementos, saveId)
  /\ last' = Result("deleteSave",
                    IF saveId \in Ids(mementos) THEN "true" ELSE "false", 0)
  /\ UNCHANGED <<now, heap, curState, maxSaves, autoSaveInterval,
                 lastAutoSave, nextId, rt, svcVars>>
  /\ UNCHANGED farVars

ClearSaves ==
  /\ mementos' = <<>>
  /\ last' = Result("clearSaves", "ok", 0)
  /\ UNCHANGED <<now, heap, curState, maxSaves, autoSaveInterval,
                 lastAutoSave, nextId, rt, svcVars>>
  /\ UNCHANGED farVars

MaxSavesInputs == {0, 2}

\* Variant: the limit is stored and nothing is pruned.
SetMaxSavesNoCleanup(mems, max) == mems

SetMaxSavesResult(mems, max) == CleanupOldSaves(mems, Max(MinMaxSaves, max))

SetMaxSaves(max) ==
  /\ maxSaves' = Max(MinMaxSaves, max)
  /\ mementos' = SetMaxSavesResult(mementos, max)
  /\ last' = Result("setMaxSaves", "ok", 0)
  /\ UNCHANGED <<now, heap, curState, autoSaveInterval, lastAutoSave,
                 nextId, rt, svcVars>>
  /\ UNCHANGED farVars

IntervalInputs == {0, DefaultAutoSaveInterval}

SetAutoSaveInterval(interval) ==
  /\ autoSaveInterval' = Max(MinAutoSaveInterval, interval)
  /\ last' = Result("setAutoSaveInterval", "ok", 0)
  /\ UNCHANGED <<now, heap, curState, mementos, maxSaves, lastAutoSave,
                 nextId, rt, svcVars>>
  /\ UNCHANGED farVars

(***************************************************************************)
(* GameCaretaker.importSaves(json)                                         *)
(***************************************************************************)
ImportSaves(json) ==
  /\ LET r == ImportResult(heap, mementos, maxSaves, json, now)
     IN /\ Len(r.h) <= MaxCells
        /\ mementos' = r.mems
        /\ heap' = r.h
  /\ last' = ResultOf("importSaves", json.kind, 0, json.items)
  /\ UNCHANGED <<now, curState, maxSaves, autoSaveInterval, lastAutoSave,
                 nextId, rt, svcVars>>
  /\ UNCHANGED farVars

(***************************************************************************)
(* A client's GameMemento.fromJSON(m.toJSON()) on a save it got from the   *)
(* caretaker (getSave); the result is observed, not stored.                *)
(***************************************************************************)
RoundTrip(saveId) ==
  /\ saveId \in Ids(mementos)
  /\ LET m == mementos[IndexOf(mementos, saveId)]
         json == ToJSON(heap, m)
     IN rt' = [orig |-> Deep(heap, m),
               copy |-> Deep(Append(heap, FromJSONCell(json)),
                             FromJSON(heap, json, now))]
  /\ last' = Result("roundTrip", "ok", saveId)
  /\ UNCHANGED <<now, heap, ctVars, svcVars>>
  /\ UNCHANGED farVars

(***************************************************************************)
(* A client changes, in place, a sub-object of a GameState it holds: the   *)
(* state it built and passed to setState, the state that                   *)
(* originator.getState() or restoreFromMemento gave it, or the state that  *)
(* getState() of a stored memento gave it.  Each of these is a spread copy *)
(* (or the original), so its player, map and inventory are the cell.       *)
(***************************************************************************)
PassedCells(h) == {g \in 1..Len(h) : h[g].by = "client"}
CurrentCells(cur) == {cur.nested} \ {0}
MementoCells(mems) == {mems[i].state.nested : i \in 1..Len(mems)} \ {0}

MutateCell(g, field, val) ==
  /\ heap[g][field] # val
  /\ IF field = "pos" THEN heap[g].pos # NoPos ELSE heap[g][field] # NoVal
  /\ heap' = [heap EXCEPT ![g][field] = val]
  /\ UNCHANGED <<now, ctVars, rt, svcVars>>
  /\ UNCHANGED farVars

Mutations == ({"pos"} \X Positions) \cup ({"map", "gold"} \X {0, 1})

MutatePassed(g, fv) ==
  /\ g \in PassedCells(heap)
  /\ MutateCell(g, fv[1], fv[2])
  /\ last' = Result("mutatePassed", "ok", 0)

MutateCurrent(g, fv) ==
  /\ g \in CurrentCells(curState)
  /\ MutateCell(g, fv[1], fv[2])
  /\ last' = Result("mutateCurrent", "ok", 0)

MutateGetState(g, fv) ==
  /\ g \in MementoCells(mementos)
  /\ MutateCell(g, fv[1], fv[2])
  /\ last' = Result("mutateGetState", "ok", 0)

(***************************************************************************)
(* The caretaker driven through the methods that change the save set.      *)
(***************************************************************************)
SpecEntries == {ForeignValid, Garbage}

Next ==
  \/ SetState(<<6, 5, 0>>)
  \/ \E n \in SaveNames : SaveGame(n)
  \/ AutoSave
  \/ \E id \in LoadIds(mementos) : DeleteSave(id)
  \/ ClearSaves
  \/ \E max \in MaxSavesInputs : SetMaxSaves(max)
  \/ \E i \in IntervalInputs : SetAutoSaveInterval(i)
  \/ \E json \in SingleImports(SpecEntries) : ImportSaves(json)

Spec == Init /\ [][Next]_vars

TypeOK ==
  /\ now \in StartTime..EndTime
  /\ Len(heap) <= MaxCells
  /\ nextId \in 1..(MaxIds + 1)
  /\ maxSaves >= MinMaxSaves
  /\ autoSaveInterval >= MinAutoSaveInterval

(***************************************************************************)
(* Auto-saves as time passes.                                              *)
(***************************************************************************)
NextAutoSave ==
  \/ Tick
  \/ SetState(<<6, 5, 0>>)
  \/ \E n \in SaveNames : SaveGame(n)
  \/ AutoSave
  \/ \E max \in MaxSavesInputs : SetMaxSaves(max)
  \/ \E i \in IntervalInputs : SetAutoSaveInterval(i)

SpecAutoSave == Init /\ [][NextAutoSave]_vars

(***************************************************************************)
(* Saves that are made, imported and loaded again.                         *)
(***************************************************************************)
RestoreEntries == {ForeignValid, ForeignOldVersion, ForeignNoVersion}

NextRestore ==
  \/ \E pos \in StatePositions : SetState(pos)
  \/ \E n \in SaveNames : SaveGame(n)
  \/ \E id \in LoadIds(mementos) : LoadGame(id)
  \/ \E json \in SingleImports(RestoreEntries) : ImportSaves(json)

SpecRestore == Init /\ [][NextRestore]_vars

(***************************************************************************)
(* Imports of crafted texts into a save set built by earlier imports.      *)
(***************************************************************************)
ImportEntries == {ForeignValid, ForeignNoVersion, ForeignNoPlayer, Garbage}
OtherEntries == {ForeignNoId, NullEntry}

NextImport ==
  \/ Tick
  \/ \E max \in MaxSavesInputs : SetMaxSaves(max)
  \/ \E json \in ImportInputs(ImportEntries) \cup SingleImports(OtherEntries) :
       ImportSaves(json)

SpecImport == Init /\ [][NextImport]_vars

(***************************************************************************)
(* Clients that also round-trip the saves through JSON.                    *)
(***************************************************************************)
NextRoundTrip ==
  \/ Tick
  \/ \E pos \in StatePositions : SetState(pos)
  \/ \E n \in SaveNames : SaveGame(n)
  \/ \E id \in LoadIds(mementos) : DeleteSave(id)
  \/ \E id \in Ids(mementos) : RoundTrip(id)

SpecRoundTrip == Init /\ [][NextRoundTrip]_vars

(***************************************************************************)
(* Clients that keep and change the states they passed in or got back.     *)
(***************************************************************************)
NextAlias ==
  \/ \E pos \in StatePositions : SetState(pos)
  \/ \E n \in SaveNames : SaveGame(n)
  \/ \E id \in LoadIds(mementos) : LoadGame(id)
  \/ \E g \in 1..Len(heap), fv \in Mutations : MutatePassed(g, fv)
  \/ \E g \in 1..Len(heap), fv \in Mutations : MutateCurrent(g, fv)
  \/ \E g \in 1..Len(heap), fv \in Mutations : MutateGetState(g, fv)

SpecAlias == Init /\ [][NextAlias]_vars

(***************************************************************************)
(* A caretaker that is configured once and then receives saves, each at a  *)
(* later time than the one before.                                         *)
(***************************************************************************)
Newest(mems) == IF mems = <<>> THEN 0 ELSE mems[Len(mems)].timestamp

NextEvict ==
  \/ Tick
  \/ SetState(<<6, 5, 0>>)
  \/ (nextId = 1 /\ \E max \in MaxSavesInputs : SetMaxSaves(max))
  \/ (now > Newest(mementos) /\ curState # NoState
        /\ \E n \in SaveNames : SaveGame(n))

SpecEvict == Init /\ [][NextEvict]_vars

(***************************************************************************)
(* SaveLoadService                                                         *)
(***************************************************************************)
\* The public methods of class Player (and of Entity, which it extends).
PlayerMethods ==
  {"getX", "getY", "getZ", "setPosition", "move", "setDirection",
   "setAnimationType", "playAnimation", "stopAnimation", "pauseAnimation",
   "resumeAnimation", "updateAnimation", "getCurrentDirection",
   "getCurrentAnimationType", "isAnimationComplete",
   "setSpriteAnimationState", "playSpriteAnimation", "setVisible", "addItem",
   "removeItem", "hasItem", "getItem", "addGold", "removeGold", "getGold",
   "getInventorySize", "getMaxInventorySize", "isInventoryFull", "getStats",
   "getHealth", "getMana", "getAttack", "getDefense", "getSpeed",
   "getSpriteKey", "getDescription", "distanceTo", "isAtPosition", "toString",
   "addComponent", "removeComponent", "getComponent", "hasComponent",
   "getAllComponents", "getComponentTypes"}

\* createPlayerState(player) begins with player.getPosition(): calling a
\* method the object does not have throws a TypeError.
CreatePlayerStateThrows == "getPosition" \notin PlayerMethods

\* createGameState(player, map): a new object graph with the position of the
\* player copied field by field.
CreateGameStateThrows == CreatePlayerStateThrows
CreateGameStateCell(pos) == Cell(pos, 0, 0, "service")

\* saveToStorage(): localStorage.setItem(storageKey, exportAllSaves()); a
\* failing setItem makes it throw.
SaveToStorage(h, mems) == ExportAllSaves(h, mems)

\* saveGame(saveName, player, map)
SvcSaveGameBody(saveName, writeOk) ==
  /\ nextId <= MaxIds
  /\ Len(heap) < MaxCells
  /\ IF ~svcEnabled \/ CreateGameStateThrows
     THEN /\ last' = Result("svcSaveGame", "throw", 0)
          /\ UNCHANGED <<heap, ctVars, storage>>
     ELSE /\ heap' = Append(heap, CreateGameStateCell(playerPos))
          /\ curState' = [nested |-> Len(heap) + 1, timestamp |-> now]
          /\ mementos' = SaveGameResult(mementos, maxSaves, curState',
                                        saveName, nextId, now)
          /\ nextId' = nextId + 1
          /\ IF writeOk
             THEN /\ storage' = SaveToStorage(heap', mementos')
                  /\ last' = Result("svcSaveGame", "ok", nextId)
             ELSE /\ last' = Result("svcSaveGame", "throw", 0)
                  /\ UNCHANGED storage
          /\ UNCHANGED <<maxSaves, autoSaveInterval, lastAutoSave>>
  /\ UNCHANGED <<now, rt, svcEnabled, svcAutoSaveEnabled, svcAutoSaveInterval,
                 svcLastAutoSave, playerPos>>

SvcSaveGame(saveName, writeOk) == SvcSaveGameBody(saveName, writeOk) /\ UNCHANGED farVars

\* loadGame(saveId)
SvcLoadGameBody(saveId) ==
  /\ IF ~svcEnabled \/ LoadGameThrows(heap, mementos, saveId)
     THEN /\ last' = Result("svcLoadGame", "throw", saveId)
          /\ UNCHANGED curState
     ELSE /\ curState' = GetState(mementos[IndexOf(mementos, saveId)])
          /\ last' = Result("svcLoadGame", "ok", saveId)
  /\ UNCHANGED <<now, heap, mementos, maxSaves, autoSaveInterval,
                 lastAutoSave, nextId, rt, svcVars>>

SvcLoadGame(saveId) == SvcLoadGameBody(saveId) /\ UNCHANGED farVars

\* autoSave(player, map): null when switched off or throttled; else
\* this.saveGame('Auto Save', ...), whose failure is caught (null again).
SvcAutoSaveBody(writeOk) ==
  /\ nextId <= MaxIds
  /\ Len(heap) < MaxCells
  /\ IF \/ ~svcAutoSaveEnabled \/ ~svcEnabled
        \/ now - svcLastAutoSave < svcAutoSaveInterval
     THEN /\ last' = Result("svcAutoSave", "null", 0)
          /\ UNCHANGED <<heap, ctVars, storage, svcLastAutoSave>>
     ELSE IF CreateGameStateThrows
     THEN /\ last' = Result("svcAutoSave", "null", 0)
          /\ UNCHANGED <<heap, ctVars, storage, svcLastAutoSave>>
     ELSE /\ heap' = Append(heap, CreateGameStateCell(playerPos))
          /\ curState' = [nested |-> Len(heap) + 1, timestamp |-> now]
          /\ mementos' = SaveGameResult(mementos, maxSaves, curState',
                                        AutoSaveName, nextId, now)
          /\ nextId' = nextId + 1
          /\ IF writeOk
             THEN /\ storage' = SaveToStorage(heap', mementos')
                  /\ svcLastAutoSave' = now
                  /\ last' = Result("svcAutoSave", "ok", nextId)
             ELSE /\ last' = Result("svcAutoSave", "null", 0)
                  /\ UNCHANGED <<storage, svcLastAutoSave>>
          /\ UNCHANGED <<maxSaves, autoSaveInterval, lastAutoSave>>
  /\ UNCHANGED <<now, rt, svcEnabled, svcAutoSaveEnabled, svcAutoSaveInterval,
                 playerPos>>

SvcAutoSave(writeOk) == SvcAutoSaveBody(writeOk) /\ UNCHANGED farVars

\* deleteSave(saveId): writes the storage when the save existed.
SvcDeleteSave(saveId, writeOk) ==
  /\ mementos' = MapDelete(mementos, saveId)
  /\ IF saveId \in Ids(mementos)
     THEN IF writeOk
          THEN /\ storage' = SaveToStorage(heap, mementos')
               /\ last' = Result("svcDeleteSave", "true", 0)
          ELSE /\ last' = Result("svcDeleteSave", "false", 0)
               /\ UNCHANGED storage
     ELSE /\ last' = Result("svcDeleteSave", "false", 0)
          /\ UNCHANGED storage
  /\ UNCHANGED <<now, heap, curState, maxSaves, autoSaveInterval,
                 lastAutoSave, nextId, rt, svcEnabled, svcAutoSaveEnabled,
                 svcAutoSaveInterval, svcLastAutoSave, playerPos>>
  /\ UNCHANGED farVars

\* importSaves(json)
SvcImportSaves(json, writeOk) ==
  /\ LET r == ImportResult(heap, mementos, maxSaves, json, now)
     IN /\ Len(r.h) <= MaxCells
        /\ mementos' = r.mems
        /\ heap' = r.h
  /\ IF writeOk
     THEN /\ storage' = SaveToStorage(heap', mementos')
          /\ last' = ResultOf("svcImportSaves", json.kind, 0, json.items)
     ELSE /\ last' = Result("svcImportSaves", "throw", 0)
          /\ UNCHANGED storage
  /\ UNCHANGED <<now, curState, maxSaves, autoSaveInterval, lastAutoSave,
                 nextId, rt, svcEnabled, svcAutoSaveEnabled,
                 svcAutoSaveInterval, svcLastAutoSave, playerPos>>
  /\ UNCHANGED farVars

\* clearSaves()
SvcClearSaves(writeOk) ==
  /\ mementos' = <<>>
  /\ IF writeOk
     THEN /\ storage' = SaveToStorage(heap, mementos')
          /\ last' = Result("svcClearSaves", "ok", 0)
     ELSE /\ last' = Result("svcClearSaves", "throw", 0)
          /\ UNCHANGED storage
  /\ UNCHANGED <<now, heap, curState, maxSaves, autoSaveInterval,
                 lastAutoSave, nextId, rt, svcEnabled, svcAutoSaveEnabled,
                 svcAutoSaveInterval, svcLastAutoSave, playerPos>>
  /\ UNCHANGED farVars

\* setAutoSaveEnabled(enabled)
SvcSetAutoSaveEnabled(enabled) ==
  /\ svcAutoSaveEnabled' = enabled
  /\ last' = Result("svcSetAutoSaveEnabled", "ok", 0)
  /\ UNCHANGED <<now, heap, ctVars, rt, storage, svcEnabled,
                 svcAutoSaveInterval, svcLastAutoSave, playerPos>>
  /\ UNCHANGED farVars

\* setAutoSaveInterval(interval)
SvcSetAutoSaveIntervalBody(interval) ==
  /\ svcAutoSaveInterval' = Max(MinAutoSaveInterval, interval)
  /\ autoSaveInterval' = Max(MinAutoSaveInterval, interval)
  /\ last' = Result("svcSetAutoSaveInterval", "ok", 0)
  /\ UNCHANGED <<now, heap, curState, mementos, maxSaves, lastAutoSave,
                 nextId, rt, storage, svcEnabled, svcAutoSaveEnabled,
                 svcLastAutoSave, playerPos>>

SvcSetAutoSaveInterval(interval) == SvcSetAutoSaveIntervalBody(interval) /\ UNCHANGED farVars

\* setMaxSaves(max): this.caretaker.setMaxSaves(max), and nothing else.
SvcSetMaxSaves(max) ==
  /\ maxSaves' = Max(MinMaxSaves, max)
  /\ mementos' = SetMaxSavesResult(mementos, max)
  /\ last' = Result("svcSetMaxSaves", "ok", 0)
  /\ UNCHANGED <<now, heap, curState, autoSaveInterval, lastAutoSave,
                 nextId, rt, svcVars>>
  /\ UNCHANGED farVars

\* setEnabled(enabled)
SvcSetEnabled(enabled) ==
  /\ svcEnabled' = enabled
  /\ last' = Result("svcSetEnabled", "ok", 0)
  /\ UNCHANGED <<now, heap, ctVars, rt, storage, svcAutoSaveEnabled,
                 svcAutoSaveInterval, svcLastAutoSave, playerPos>>
  /\ UNCHANGED farVars

\* new SaveLoadService() on a page that is loaded again: a new originator
\* and caretaker, then loadSavesFromStorage(), which imports the stored text
\* when there is one.
SvcNew ==
  /\ LET r == IF storage = NoItem THEN [mems |-> <<>>, h |-> heap]
              ELSE ImportResult(heap, <<>>, DefaultMaxSaves, storage, now)
     IN /\ Len(r.h) <= MaxCells
        /\ mementos' = r.mems
        /\ heap' = r.h
  /\ curState' = NoState
  /\ maxSaves' = DefaultMaxSaves
  /\ autoSaveInterval' = DefaultAutoSaveInterval
  /\ lastAutoSave' = 0
  /\ svcEnabled' = TRUE
  /\ svcAutoSaveEnabled' = TRUE
  /\ svcAutoSaveInterval' = DefaultAutoSaveInterval
  /\ svcLastAutoSave' = 0
  /\ last' = Result("svcNew", "ok", 0)
  /\ UNCHANGED <<now, nextId, rt, storage, playerPos>>
  /\ UNCHANGED farVars

\* The game moves the live player (PositionComponent.setPosition).
MovePlayer(pos) ==
  /\ pos # playerPos
  /\ playerPos' = pos
  /\ last' = Result("movePlayer", "ok", 0)
  /\ UNCHANGED <<now, heap, ctVars, rt, storage, svcEnabled,
                 svcAutoSaveEnabled, svcAutoSaveInterval, svcLastAutoSave>>
  /\ UNCHANGED farVars

\* The service driven through its public methods; the storage takes every
\* write.
StorageWrites == {TRUE}
ServiceEntries == {ForeignValid, ForeignOldVersion, Garbage}

NextService ==
  \/ Tick
  \/ \E pos \in Positions : MovePlayer(pos)
  \/ \E n \in SaveNames, w \in StorageWrites : SvcSaveGame(n, w)
  \/ \E id \in LoadIds(mementos) : SvcLoadGame(id)
  \/ \E w \in StorageWrites : SvcAutoSave(w)
  \/ \E id \in LoadIds(mementos), w \in StorageWrites : SvcDeleteSave(id, w)
  \/ \E json \in ImportInputs(ServiceEntries), w \in StorageWrites :
       SvcImportSaves(json, w)
  \/ \E w \in StorageWrites : SvcClearSaves(w)
  \/ \E b \in BOOLEAN : SvcSetAutoSaveEnabled(b)
  \/ \E i \in IntervalInputs : SvcSetAutoSaveInterval(i)
  \/ \E max \in MaxSavesInputs : SvcSetMaxSaves(max)
  \/ \E b \in BOOLEAN : SvcSetEnabled(b)
  \/ SvcNew

SpecService == Init /\ [][NextService]_vars

(***************************************************************************)
(* Service calls in flight.  saveGame and loadGame are async functions: a  *)
(* call runs synchronously up to its first await (saveGame: the await of   *)
(* saveToStorage(), which itself has run to its end by then) or to its     *)
(* return or throw, and everything after, the caller's continuation        *)
(* included, runs in a later turn of the event loop, in any order with the *)
(* turns of other calls.                                                   *)
(***************************************************************************)
Callers == 1..MaxCallers
IdleCall == [pc |-> "idle", op |-> "", res |-> "", id |-> 0]

\* caller c calls service.saveGame(saveName, player, map): the turn of the
\* call, up to `await this.saveToStorage()` or to the throw.
CallSaveGame(c, saveName) ==
  /\ calls[c].pc = "idle"
  /\ SvcSaveGameBody(saveName, TRUE)
  /\ calls' = [calls EXCEPT ![c] =
                 [pc |-> IF last'.res = "ok" THEN "await" ELSE "settled",
                  op |-> "saveGame", res |-> last'.res, id |-> last'.id]]
  /\ UNCHANGED exceptCalls

\* caller c calls service.loadGame(saveId): the body has no await.
CallLoadGame(c, saveId) ==
  /\ calls[c].pc = "idle"
  /\ SvcLoadGameBody(saveId)
  /\ calls' = [calls EXCEPT ![c] =
                 [pc |-> "settled", op |-> "loadGame", res |-> last'.res,
                  id |-> saveId]]
  /\ UNCHANGED exceptCalls

\* A later turn of call c: the rest of saveGame after the await (the
\* save_completed event and the return), or the caller's continuation on
\* the settled promise.
Continue(c) ==
  /\ calls[c].pc # "idle"
  /\ calls' = [calls EXCEPT ![c] =
                 IF calls[c].pc = "await"
                 THEN [calls[c] EXCEPT !.pc = "settled"]
                 ELSE IdleCall]
  /\ last' = Result("continue", calls[c].res, calls[c].id)
  /\ UNCHANGED <<now, heap, ctVars, rt, svcVars, exceptCalls>>

CallEntries == {ForeignValid, ForeignOldVersion}

NextCalls ==
  \/ \E pos \in Positions : MovePlayer(pos)
  \/ \E json \in SingleImports(CallEntries) : SvcImportSaves(json, TRUE)
  \/ \E b \in BOOLEAN : SvcSetEnabled(b)
  \/ \E c \in Callers, n \in SaveNames : CallSaveGame(c, n)
  \/ \E c \in Callers, id \in LoadIds(mementos) : CallLoadGame(c, id)
  \/ \E c \in Callers : Continue(c)

SpecCalls == Init /\ [][NextCalls]_vars

(***************************************************************************)
(* SaveLoadSystem                                                          *)
(***************************************************************************)
SysDone(op, dt, fired) == [op |-> op, dt |-> dt, fired |-> fired]

\* this.autoSave() with player and map set: the turn of the call, that is
\* saveLoadService.autoSave(player, map) up to its first await.
SysAutoSave == SvcAutoSaveBody(TRUE)

\* handlePlayerCreated(event): registers an event.player that is a Player.
SysPlayerCreated(isPlayer) ==
  /\ sysPlayer' = (sysPlayer \/ isPlayer)
  /\ sysLast' = SysDone("player:created", 0, FALSE)
  /\ UNCHANGED <<memVars, sysMap, sysTimer, sysInterval, sysEnabled, exceptSys>>

\* handleMapCreated(event)
SysMapCreated(isMap) ==
  /\ sysMap' = (sysMap \/ isMap)
  /\ sysLast' = SysDone("map:created", 0, FALSE)
  /\ UNCHANGED <<memVars, sysPlayer, sysTimer, sysInterval, sysEnabled,
                 exceptSys>>

\* handleGamePause(event)
SysGamePause ==
  /\ IF sysPlayer /\ sysMap
     THEN /\ SysAutoSave
          /\ sysLast' = SysDone("game:pause", 0, TRUE)
     ELSE /\ sysLast' = SysDone("game:pause", 0, FALSE)
          /\ UNCHANGED memVars
  /\ UNCHANGED <<sysPlayer, sysMap, sysTimer, sysInterval, sysEnabled,
                 exceptSys>>

\* handleGameResume(event)
SysGameResume ==
  /\ sysTimer' = 0
  /\ sysLast' = SysDone("game:resume", 0, FALSE)
  /\ UNCHANGED <<memVars, sysPlayer, sysMap, sysInterval, sysEnabled,
                 exceptSys>>

\* Variant: the timer has to pass the interval.
SysUpdateDuePast(timer, interval) == timer > interval

\* update(deltaTime): the test of the accumulated timer.
SysUpdateDue(timer, interval) == timer >= interval

\* update(deltaTime)
SysUpdate(deltaTime) ==
  /\ IF ~sysEnabled \/ ~sysPlayer \/ ~sysMap
     THEN /\ sysLast' = SysDone("update", deltaTime, FALSE)
          /\ UNCHANGED <<memVars, sysTimer>>
     ELSE IF SysUpdateDue(sysTimer + deltaTime, sysInterval)
     THEN /\ SysAutoSave
          /\ sysTimer' = 0
          /\ sysLast' = SysDone("update", deltaTime, TRUE)
     ELSE /\ sysTimer' = sysTimer + deltaTime
          /\ sysLast' = SysDone("update", deltaTime, FALSE)
          /\ UNCHANGED memVars
  /\ UNCHANGED <<sysPlayer, sysMap, sysInterval, sysEnabled, exceptSys>>

\* setEnabled(enabled)
SysSetEnabled(enabled) ==
  /\ sysEnabled' = enabled
  /\ sysTimer' = IF enabled THEN 0 ELSE sysTimer
  /\ sysLast' = SysDone("setEnabled", 0, FALSE)
  /\ UNCHANGED <<memVars, sysPlayer, sysMap, sysInterval, exceptSys>>

\* setAutoSaveInterval(interval)
SysSetAutoSaveInterval(interval) ==
  /\ sysInterval' = Max(MinAutoSaveInterval, interval)
  /\ SvcSetAutoSaveIntervalBody(interval)
  /\ sysLast' = SysDone("setAutoSaveInterval", 0, FALSE)
  /\ UNCHANGED <<sysPlayer, sysMap, sysTimer, sysEnabled, exceptSys>>

\* The frame times handed to update.
DeltaTimes == {MinAutoSaveInterval \div 3, TickMs}

NextSystem ==
  \/ \E b \in BOOLEAN : SysPlayerCreated(b)
  \/ \E b \in BOOLEAN : SysMapCreated(b)
  \/ SysGamePause
  \/ SysGameResume
  \/ \E dt \in DeltaTimes : SysUpdate(dt)
  \/ \E b \in BOOLEAN : SysSetEnabled(b)
  \/ \E i \in IntervalInputs : SysSetAutoSaveInterval(i)

SpecSystem == Init /\ [][NextSystem]_vars

(***************************************************************************)
(* SaveLoadManager.  The manager holds a SaveLoadService of its own        *)
(* (mgrSaves) and a SaveLoadSystem, which holds another one (mementos);    *)
(* the two services share only the localStorage item.                      *)
(***************************************************************************)
MgrDone(op, res, id) == [op |-> op, res |-> res, id |-> id]

\* SaveLoadSystem.saveGame(saveName), to the value its promise resolves to.
SysSaveGame(saveName) ==
  IF ~sysPlayer \/ ~sysMap THEN UNCHANGED memVars
  ELSE SvcSaveGameBody(saveName, TRUE)
SysSaveGameTrue == sysPlayer /\ sysMap /\ last'.res = "ok"

\* initialize()
MgrInitialize ==
  /\ mgrInitialized' = TRUE
  /\ mgrLast' = MgrDone("initialize", "ok", 0)
  /\ UNCHANGED <<memVars, sysVars, mgrSaves, mgrSvcInterval, exceptMgr>>

\* registerGameEntities(player, map): the two events reach the handlers of
\* the system within the call.
MgrRegisterGameEntities ==
  /\ IF ~mgrInitialized
     THEN /\ mgrLast' = MgrDone("registerGameEntities", "throw", 0)
          /\ UNCHANGED <<sysPlayer, sysMap>>
     ELSE /\ sysPlayer' = TRUE
          /\ sysMap' = TRUE
          /\ mgrLast' = MgrDone("registerGameEntities", "ok", 0)
  /\ UNCHANGED <<memVars, sysTimer, sysInterval, sysEnabled, sysLast,
                 mgrInitialized, mgrSaves, mgrSvcInterval, exceptMgr>>

\* saveGame(saveName); quickSave() is saveGame with a name built from the
\* time.
MgrSaveGameAs(op, saveName) ==
  /\ IF ~mgrInitialized
     THEN /\ mgrLast' = MgrDone(op, "throw", 0)
          /\ UNCHANGED memVars
     ELSE /\ SysSaveGame(saveName)
          /\ mgrLast' = IF SysSaveGameTrue THEN MgrDone(op, "true", last'.id)
                        ELSE MgrDone(op, "false", 0)
  /\ UNCHANGED <<sysVars, mgrInitialized, mgrSaves, mgrSvcInterval, exceptMgr>>

MgrSaveGame(saveName) == MgrSaveGameAs("saveGame", saveName)
MgrQuickSave == MgrSaveGameAs("quickSave", "Quick Save")

\* loadGame(saveId)
MgrLoadGameAs(op, saveId) ==
  /\ IF ~mgrInitialized
     THEN /\ mgrLast' = MgrDone(op, "throw", saveId)
          /\ UNCHANGED memVars
     ELSE /\ SvcLoadGameBody(saveId)
          /\ mgrLast' = MgrDone(op, IF last'.res = "ok" THEN "true" ELSE "false",
                                saveId)
  /\ UNCHANGED <<sysVars, mgrInitialized, mgrSaves, mgrSvcInterval, exceptMgr>>

MgrLoadGame(saveId) == MgrLoadGameAs("loadGame", saveId)

\* GameCaretaker.getLatestSave(): the first of the saves with the greatest
\* timestamp.
RECURSIVE GetLatestSave(_)
GetLatestSave(mems) ==
  IF Len(mems) = 1 THEN mems[1]
  ELSE LET latest == GetLatestSave(SubSeq(mems, 1, Len(mems) - 1))
           current == mems[Len(mems)]
       IN IF current.timestamp > latest.timestamp THEN current ELSE latest

\* loadLatestSave(): the latest save of the manager's own service.
MgrLoadLatestSave ==
  IF mgrSaves = <<>>
  THEN /\ mgrLast' = MgrDone("loadLatestSave", "false", 0)
       /\ UNCHANGED <<memVars, sysVars, mgrInitialized, mgrSaves,
                      mgrSvcInterval, exceptMgr>>
  ELSE MgrLoadGameAs("loadLatestSave", GetLatestSave(mgrSaves).id)

\* forceAutoSave(): saveLoadSystem.setAutoSaveInterval(0), then
\* saveLoadSystem.saveGame('Force Auto Save'), whose result is dropped.
MgrForceAutoSave ==
  /\ IF ~mgrInitialized
     THEN /\ mgrLast' = MgrDone("forceAutoSave", "false", 0)
          /\ UNCHANGED <<memVars, sysInterval>>
     ELSE /\ nextId <= MaxIds
          /\ Len(heap) < MaxCells
          /\ sysInterval' = Max(MinAutoSaveInterval, 0)
          /\ svcAutoSaveInterval' = Max(MinAutoSaveInterval, 0)
          /\ autoSaveInterval' = Max(MinAutoSaveInterval, 0)
          /\ IF ~sysPlayer \/ ~sysMap
             THEN UNCHANGED <<heap, curState, mementos, nextId, storage, last>>
             ELSE IF ~svcEnabled \/ CreateGameStateThrows
             THEN /\ last' = Result("svcSaveGame", "throw", 0)
                  /\ UNCHANGED <<heap, curState, mementos, nextId, storage>>
             ELSE /\ heap' = Append(heap, CreateGameStateCell(playerPos))
                  /\ curState' = [nested |-> Len(heap) + 1, timestamp |-> now]
                  /\ mementos' = SaveGameResult(mementos, maxSaves, curState',
                                                "Force Auto Save", nextId, now)
                  /\ nextId' = nextId + 1
                  /\ storage' = SaveToStorage(heap', mementos')
                  /\ last' = Result("svcSaveGame", "ok", nextId)
          /\ mgrLast' = MgrDone("forceAutoSave", "true", 0)
          /\ UNCHANGED <<now, rt, maxSaves, lastAutoSave, svcEnabled,
                         svcAutoSaveEnabled, svcLastAutoSave, playerPos>>
  /\ UNCHANGED <<sysPlayer, sysMap, sysTimer, sysEnabled, sysLast,
                 mgrInitialized, mgrSaves, mgrSvcInterval, exceptMgr>>

\* importSaves(json): into the manager's own service, which writes the
\* storage.
MgrImportSaves(json) ==
  /\ LET r == ImportResult(heap, mgrSaves, DefaultMaxSaves, json, now)
     IN /\ Len(r.h) <= MaxCells
        /\ mgrSaves' = r.mems
        /\ heap' = r.h
  /\ storage' = SaveToStorage(heap', mgrSaves')
  /\ mgrLast' = MgrDone("importSaves", "ok", 0)
  /\ UNCHANGED <<now, ctVars, rt, last, svcEnabled, svcAutoSaveEnabled,
                 svcAutoSaveInterval, svcLastAutoSave, playerPos, sysVars,
                 mgrInitialized, mgrSvcInterval, exceptMgr>>

\* setAutoSaveInterval(interval): the manager's service, then the system
\* (and through it the system's service).
MgrSetAutoSaveInterval(interval) ==
  /\ mgrSvcInterval' = Max(MinAutoSaveInterval, interval)
  /\ sysInterval' = Max(MinAutoSaveInterval, interval)
  /\ SvcSetAutoSaveIntervalBody(interval)
  /\ mgrLast' = MgrDone("setAutoSaveInterval", "ok", 0)
  /\ UNCHANGED <<sysPlayer, sysMap, sysTimer, sysEnabled, sysLast,
                 mgrInitialized, mgrSaves, exceptMgr>>

\* new SaveLoadManager() on a page that is loaded again: the heap starts
\* empty, and the manager's service and the system's service each import
\* the stored text.
MgrNew ==
  /\ LET own == IF storage = NoItem THEN [mems |-> <<>>, h |-> <<>>]
                ELSE ImportResult(<<>>, <<>>, DefaultMaxSaves, storage, now)
         sys == IF storage = NoItem THEN [mems |-> <<>>, h |-> <<>>]
                ELSE ImportResult(own.h, <<>>, DefaultMaxSaves, storage, now)
     IN /\ Len(sys.h) <= MaxCells
        /\ mgrSaves' = own.mems
        /\ mementos' = sys.mems
        /\ heap' = sys.h
  /\ curState' = NoState
  /\ maxSaves' = DefaultMaxSaves
  /\ autoSaveInterval' = DefaultAutoSaveInterval
  /\ lastAutoSave' = 0
  /\ svcEnabled' = TRUE
  /\ svcAutoSaveEnabled' = TRUE
  /\ svcAutoSaveInterval' = DefaultAutoSaveInterval
  /\ svcLastAutoSave' = 0
  /\ sysPlayer' = FALSE
  /\ sysMap' = FALSE
  /\ sysTimer' = 0
  /\ sysInterval' = DefaultAutoSaveInterval
  /\ sysEnabled' = TRUE
  /\ sysLast' = SysDone("new", 0, FALSE)
  /\ mgrInitialized' = FALSE
  /\ mgrSvcInterval' = DefaultAutoSaveInterval
  /\ mgrLast' = MgrDone("new", "ok", 0)
  /\ last' = Result("new", "ok", 0)
  /\ calls' = [c \in Callers |-> IdleCall]
  /\ UNCHANGED <<now, nextId, rt, storage, playerPos>>
  /\ UNCHANGED <<busVars, mvVars, restVars>>

ManagerEntries == {ForeignValid, ForeignOldVersion}

NextManager ==
  \/ MgrInitialize
  \/ MgrRegisterGameEntities
  \/ \E n \in SaveNames : MgrSaveGame(n)
  \/ MgrQuickSave
  \/ \E id \in LoadIds(mgrSaves) : MgrLoadGame(id)
  \/ MgrLoadLatestSave
  \/ MgrForceAutoSave
  \/ \E json \in SingleImports(ManagerEntries) : MgrImportSaves(json)
  \/ \E i \in IntervalInputs : MgrSetAutoSaveInterval(i)
  \/ MgrNew

SpecManager == Init /\ [][NextManager]_vars

(***************************************************************************)
(* EventBus (gameKernel/Kernel.ts), for one topic.  emit runs              *)
(* listeners.get(topic).forEach(...) over the live array: forEach fixes    *)
(* the number of indexes it visits when it begins and reads each element   *)
(* when its index comes; on() pushes onto that array and off() splices it. *)
(* A callback is code of the subscriber: what it does when invoked         *)
(* (return, throw, subscribe or unsubscribe a callback) is an input.       *)
(***************************************************************************)
Handlers == 1..MaxHandlers

\* callbacks.splice(callbacks.indexOf(callback), 1)
Splice(callbacks, h) ==
  SelectSeq(callbacks, LAMBDA x : x # h)

\* on(topic, callback), with a callback that is not subscribed
BusOn(h) ==
  /\ busPc = "idle"
  /\ h \notin Range(busListeners)
  /\ busListeners' = Append(busListeners, h)
  /\ UNCHANGED <<busPc, busIdx, busLen, busSnap, busCalled, busThrew, exceptBus>>

\* off(topic, callback)
BusOff(h) ==
  /\ busPc = "idle"
  /\ h \in Range(busListeners)
  /\ busListeners' = Splice(busListeners, h)
  /\ UNCHANGED <<busPc, busIdx, busLen, busSnap, busCalled, busThrew, exceptBus>>

\* emit(topic, data): the forEach begins.
BusEmit ==
  /\ busPc = "idle"
  /\ busPc' = "emit"
  /\ busIdx' = 1
  /\ busLen' = Len(busListeners)
  /\ busSnap' = busListeners
  /\ busCalled' = <<>>
  /\ busThrew' = {}
  /\ UNCHANGED <<busListeners, exceptBus>>

\* Variant: no try/catch around the callback; the exception ends forEach.
NextIndexUncaught(idx, len, threw) == IF threw THEN len + 1 ELSE idx + 1

\* The index after a callback has run: the catch swallows what it threw.
NextIndex(idx, len, threw) == idx + 1

\* What a callback may do when it is invoked.
Behaviours ==
  {<<"return", 0>>, <<"throw", 0>>} \cup ({"on", "off"} \X Handlers)

\* One turn of the forEach: the callback at the index is invoked.
BusInvoke(b) ==
  /\ busPc = "emit"
  /\ busIdx <= busLen
  /\ busIdx <= Len(busListeners)
  /\ LET h == busListeners[busIdx]
     IN /\ busCalled' = Append(busCalled, h)
        /\ busThrew' = IF b[1] = "throw" THEN busThrew \cup {h} ELSE busThrew
  /\ CASE b[1] = "on" ->
            /\ b[2] \notin Range(busListeners) \cup Range(busSnap)
            /\ busListeners' = Append(busListeners, b[2])
       [] b[1] = "off" ->
            /\ b[2] \in Range(busListeners)
            /\ busListeners' = Splice(busListeners, b[2])
       [] OTHER -> UNCHANGED busListeners
  /\ busIdx' = NextIndex(busIdx, busLen, b[1] = "throw")
  /\ UNCHANGED <<busPc, busLen, busSnap, exceptBus>>

\* The forEach has no index left to visit: emit returns.
BusReturn ==
  /\ busPc = "emit"
  /\ busIdx > busLen \/ busIdx > Len(busListeners)
  /\ busPc' = "idle"
  /\ UNCHANGED <<busListeners, busIdx, busLen, busSnap, busCalled, busThrew,
                 exceptBus>>

NextBus ==
  \/ \E h \in Handlers : BusOn(h)
  \/ \E h \in Handlers : BusOff(h)
  \/ BusEmit
  \/ \E b \in Behaviours : BusInvoke(b)
  \/ BusReturn

SpecBus == Init /\ [][NextBus]_vars

(***************************************************************************)
(* Movement: the Map facade over its tiles, the directional commands       *)
(* (MovementCommand.ts) and MovementService (its handleInput and moveTo).  *)
(* The map is the one generateRandomMap builds with the standard theme:    *)
(* a walkable tile of elevation 0 at every cell (the water and mountain    *)
(* tiles it adds afterwards sit behind the first tile of their cell, which *)
(* getTile returns); setTileAt then replaces tiles.  A tile type stands    *)
(* for its class of TileProperties: "grass" for grass, stone, sand, path   *)
(* and bridge (walkable, elevation 0).                                     *)
(***************************************************************************)
Cells == (0..(MapWidth - 1)) \X (0..(MapHeight - 1))
TileTypes == {"grass", "forest", "water", "mountain"}

\* TileProperties.walkable
TileWalkable(type) == type \in {"grass", "forest"}

\* TileProperties.elevation
TileElevation(type) ==
  CASE type = "grass" -> 0
    [] type = "forest" -> 1
    [] type = "water" -> -1
    [] type = "mountain" -> 3

\* Map.getTile: the tile at the cell, none outside the map
GetTile(map, x, y) == IF <<x, y>> \in Cells THEN map[<<x, y>>] ELSE "none"

\* Map.isWalkable: tile ? tile.isWalkable() : false
IsWalkable(map, x, y) ==
  GetTile(map, x, y) # "none" /\ TileWalkable(GetTile(map, x, y))

\* Map.getElevation: tile ? tile.getElevation() : 0
GetElevation(map, x, y) ==
  IF GetTile(map, x, y) = "none" THEN 0 ELSE TileElevation(GetTile(map, x, y))

\* Math.abs
Abs(n) == IF n < 0 THEN -n ELSE n

\* Variant: the elevation of the two cells is not compared.
IsValidPositionNoElevation(map, pos, x, y) ==
  /\ ~(x < 0 \/ x >= MapWidth \/ y < 0 \/ y >= MapHeight)
  /\ IsWalkable(map, x, y)

\* Variant: the tile of the target cell is not asked whether it is walkable.
IsValidPositionAnyTile(map, pos, x, y) ==
  /\ ~(x < 0 \/ x >= MapWidth \/ y < 0 \/ y >= MapHeight)
  /\ ~(Abs(GetElevation(map, x, y) - GetElevation(map, pos[1], pos[2])) > 1)

\* MovementCommand.isValidPosition, for the player standing at pos
IsValidPosition(map, pos, x, y) ==
  /\ ~(x < 0 \/ x >= MapWidth \/ y < 0 \/ y >= MapHeight)
  /\ IsWalkable(map, x, y)
  /\ ~(Abs(GetElevation(map, x, y) - GetElevation(map, pos[1], pos[2])) > 1)

\* AnimationComponent.type, the key Entity.addComponent files it under
AnimationComponentType == "AnimationComponent"

\* The key Player.animation and the AnimationSystem look the component up by
AnimationLookupType == "Animation"

\* entity.getComponent('Animation') finds the AnimationComponent
EntityHasAnimation == AnimationComponentType = AnimationLookupType

\* Player.setDirection: the direction after it, no change without the
\* component (if (this.animation) ...)
SetDirection(direction) ==
  IF EntityHasAnimation THEN direction ELSE playerDir

\* Player.setAnimationType: the animation type after it
SetAnimationType(type) ==
  IF EntityHasAnimation THEN type ELSE playerAnim

Directions == {"north", "south", "east", "west"}

\* deltaX, deltaY of MoveNorthCommand, MoveSouthCommand, MoveEastCommand and
\* MoveWestCommand (deltaZ is 0)
Delta(direction) ==
  CASE direction = "north" -> <<0, -1>>
    [] direction = "south" -> <<0, 1>>
    [] direction = "east" -> <<1, 0>>
    [] direction = "west" -> <<-1, 0>>

\* The cell a directional command aims at.
Target(pos, direction) ==
  <<pos[1] + Delta(direction)[1], pos[2] + Delta(direction)[2]>>

MvDone(op, res, target) == [op |-> op, res |-> res, target |-> target]

\* MovementCommand.execute (canExecute, then isValidPosition again), with
\* the player and its animation as it leaves them; op names the caller.
ExecuteAs(op, direction) ==
  LET t == Target(playerPos, direction)
  IN IF IsValidPosition(mvMap, playerPos, t[1], t[2])
     THEN /\ playerPos' = <<t[1], t[2], playerPos[3]>>
          /\ playerDir' = SetDirection(direction)
          /\ playerAnim' = SetAnimationType("walk")
          /\ mvLast' = MvDone(op, "true", t)
     ELSE /\ mvLast' = MvDone(op, "false", t)
          /\ UNCHANGED <<playerPos, playerDir, playerAnim>>

\* new MoveXCommand(player, map).execute()
CommandExecute(direction) ==
  /\ ExecuteAs("execute", direction)
  /\ UNCHANGED <<mvMap, mvEdits, mvEnabled, exceptMv>>

\* The keys the handler chain knows; "x" stands for any other key.
Keys == {"w", "a", "s", "d", "ArrowUp", " ", "x"}

\* MovementInputHandler.movementKeys
KeyDirection(key) ==
  CASE key = "w" -> "north"
    [] key = "a" -> "west"
    [] key = "s" -> "south"
    [] key = "d" -> "east"
    [] key = "ArrowUp" -> "north"
    [] OTHER -> "none"

\* Variant: the chain hands the command over without queueing it.
QueuePushNone(queue, command) == queue

\* InputManager.processInput: this.commandQueue.push(command)
QueuePush(queue, command) == Append(queue, command)

\* MovementService.handleInput(key): the command the chain builds is queued
\* by InputManager.processInput and run through getResult, which executes
\* it.  The service never runs the queue, and the command stays in it.
MvHandleInput(key) ==
  /\ IF ~mvEnabled \/ key = "x"
     THEN /\ mvLast' = MvDone("handleInput", "null", <<>>)
          /\ UNCHANGED <<playerPos, playerDir, playerAnim, inQueue>>
     ELSE IF KeyDirection(key) = "none"
     THEN \* NoMovementCommand.execute
          /\ Len(inQueue) < MaxQueue
          /\ inQueue' = QueuePush(inQueue, "idle")
          /\ playerAnim' = SetAnimationType("idle")
          /\ mvLast' = MvDone("handleInput", "true", <<>>)
          /\ UNCHANGED <<playerPos, playerDir>>
     ELSE /\ Len(inQueue) < MaxQueue
          /\ inQueue' = QueuePush(inQueue, KeyDirection(key))
          /\ ExecuteAs("handleInput", KeyDirection(key))
  /\ UNCHANGED <<mvMap, mvEdits, mvEnabled, exceptMvQueue>>

\* MovementService.calculateDirection
CalculateDirection(deltaX, deltaY) ==
  IF Abs(deltaX) > Abs(deltaY)
  THEN (IF deltaX > 0 THEN "east" ELSE "west")
  ELSE (IF deltaY > 0 THEN "south" ELSE "north")

\* MovementService.moveTo(x, y)
MvMoveTo(x, y) ==
  /\ IF \/ ~mvEnabled
        \/ x < 0 \/ x >= MapWidth \/ y < 0 \/ y >= MapHeight
        \/ ~IsWalkable(mvMap, x, y)
     THEN /\ mvLast' = MvDone("moveTo", "false", <<x, y>>)
          /\ UNCHANGED <<playerPos, playerDir, playerAnim>>
     ELSE /\ playerPos' = <<x, y, 0>>
          /\ playerDir' = SetDirection(CalculateDirection(x - playerPos[1],
                                                          y - playerPos[2]))
          /\ playerAnim' = SetAnimationType("walk")
          /\ mvLast' = MvDone("moveTo", "true", <<x, y>>)
  /\ UNCHANGED <<mvMap, mvEdits, mvEnabled, exceptMv>>

\* MovementService.setEnabled: disabling clears the input queue and pauses
\* the animation in place
MvSetEnabled(enabled) ==
  /\ enabled # mvEnabled
  /\ mvEnabled' = enabled
  /\ inQueue' = IF enabled THEN inQueue ELSE <<>>
  /\ mvLast' = MvDone("setEnabled", "null", <<>>)
  /\ UNCHANGED <<playerPos, playerDir, playerAnim, mvMap, mvEdits,
                 exceptMvQueue>>

\* MovementService.clearQueue()
MvClearQueue ==
  /\ Len(inQueue) > 0
  /\ inQueue' = <<>>
  /\ mvLast' = MvDone("clearQueue", "null", <<>>)
  /\ UNCHANGED <<playerPos, playerDir, playerAnim, mvMap, mvEdits, mvEnabled,
                 exceptMvQueue>>

\* Map.setTileAt(x, y, type)
MapSetTileAt(x, y, type) ==
  /\ mvEdits < MaxTileEdits
  /\ <<x, y>> \in Cells
  /\ mvMap[<<x, y>>] # type
  /\ mvMap' = [mvMap EXCEPT ![<<x, y>>] = type]
  /\ mvEdits' = mvEdits + 1
  /\ mvLast' = MvDone("setTileAt", "true", <<x, y>>)
  /\ UNCHANGED <<playerPos, playerDir, playerAnim, mvEnabled, exceptMv>>

\* player.setPosition(x, y, 0), as the game and the tests place the player
PlayerSetPosition(x, y) ==
  /\ <<x, y, 0>> # playerPos
  /\ playerPos' = <<x, y, 0>>
  /\ mvLast' = MvDone("setPosition", "null", <<x, y>>)
  /\ UNCHANGED <<playerDir, playerAnim, mvMap, mvEdits, mvEnabled, exceptMv>>

\* The coordinates callers pass: the cells and one step around the map.
Xs == (-1)..MapWidth
Ys == (-1)..MapHeight

NextMovement ==
  \/ \E d \in Directions : CommandExecute(d)
  \/ \E k \in Keys : MvHandleInput(k)
  \/ \E x \in Xs, y \in Ys : MvMoveTo(x, y)
  \/ \E e \in BOOLEAN : MvSetEnabled(e)
  \/ MvClearQueue
  \/ \E c \in Cells, t \in TileTypes : MapSetTileAt(c[1], c[2], t)
  \/ \E c \in Cells : PlayerSetPosition(c[1], c[2])

SpecMovement == Init /\ [][NextMovement]_vars

\* The service driven by keys alone, the player placed on the map.
NextQueue ==
  \/ \E k \in Keys : MvHandleInput(k)
  \/ \E e \in BOOLEAN : MvSetEnabled(e)
  \/ MvClearQueue
  \/ PlayerSetPosition(0, 0)

SpecQueue == Init /\ [][NextQueue]_vars

\* The commands alone, run by a caller that holds the player and the map.
NextCommand ==
  \/ \E d \in Directions : CommandExecute(d)
  \/ \E c \in Cells, t \in TileTypes : MapSetTileAt(c[1], c[2], t)
  \/ \E c \in Cells : PlayerSetPosition(c[1], c[2])

SpecCommand == Init /\ [][NextCommand]_vars

(***************************************************************************)
(* A MovementCommand kept by its caller, which may execute it and undo it. *)
(***************************************************************************)
\* The state of the world these commands never touch.
exceptCmd == <<lateVars, invVars, animVars, asVars, mvMap, mvEdits, mvEnabled, inQueue, inProcessing, inResults,
               inLast, now, heap, ctVars, rt, last, storage, svcEnabled,
               svcAutoSaveEnabled, svcAutoSaveInterval, svcLastAutoSave,
               callVars, sysVars, mgrVars, busVars>>

\* new MoveNorthCommand(player, map), ...: previousPosition is undefined
CmdNew(direction) ==
  /\ cmd' = [dir |-> direction, prev |-> <<>>]
  /\ mvLast' = MvDone("newCommand", "null", <<>>)
  /\ UNCHANGED <<playerPos, playerDir, playerAnim, exceptCmd>>

\* cmd.execute(): previousPosition is stored once canExecute has passed
CmdExecute ==
  /\ ExecuteAs("cmdExecute", cmd.dir)
  /\ LET t == Target(playerPos, cmd.dir)
     IN cmd' = IF IsValidPosition(mvMap, playerPos, t[1], t[2])
               THEN [cmd EXCEPT !.prev = playerPos]
               ELSE cmd
  /\ UNCHANGED exceptCmd

\* Variant: undo leaves the player where the move put it.
UndoPositionStay(prev, pos) == pos

\* The position undo sets: previousPosition.x, .y, .z
UndoPosition(prev, pos) == prev

\* cmd.undo()
CmdUndo ==
  /\ IF cmd.prev = <<>>
     THEN /\ mvLast' = MvDone("undo", "false", <<>>)
          /\ UNCHANGED <<playerPos, playerAnim>>
     ELSE /\ playerPos' = UndoPosition(cmd.prev, playerPos)
          /\ playerAnim' = SetAnimationType("idle")
          /\ mvLast' = MvDone("undo", "true", <<>>)
  /\ UNCHANGED <<cmd, playerDir, exceptCmd>>

NextUndo ==
  \/ \E d \in Directions : CmdNew(d)
  \/ CmdExecute
  \/ CmdUndo
  \/ \E c \in Cells : PlayerSetPosition(c[1], c[2])

SpecUndo == Init /\ [][NextUndo]_vars

(***************************************************************************)
(* Several movement commands kept by one caller, on a map that is laid out *)
(* and a player that is placed before the first command is made and that   *)
(* only the commands touch afterwards.  "idle" is NoMovementCommand.       *)
(***************************************************************************)
HeldDirections == Directions \cup {"idle"}

\* The caller's commands are listed by direction: which command stands
\* where in the list makes no difference to what execute and undo do.
DirectionRank(direction) ==
  CASE direction = "north" -> 1
    [] direction = "east" -> 2
    [] direction = "south" -> 3
    [] direction = "west" -> 4
    [] direction = "idle" -> 5

\* The tile the map is laid out with, next to the grass it starts with:
\* one that cannot be walked on.
HeldTileTypes == {"water"}

\* The player at pos stands on a cell of the map whose tile is walkable.
OnWalkableCell(map, pos) ==
  /\ <<pos[1], pos[2]>> \in Cells
  /\ IsWalkable(map, pos[1], pos[2])

\* Map.setTileAt while the map is laid out
HeldSetTileAt(x, y, type) ==
  /\ heldStart = "unset"
  /\ MapSetTileAt(x, y, type)

\* player.setPosition while the player is placed
HeldSetPosition(x, y) ==
  /\ heldStart = "unset"
  /\ PlayerSetPosition(x, y)

\* new MoveNorthCommand(player, map), ..., new NoMovementCommand(player, map)
HeldNew(direction) ==
  /\ Len(heldCmds) < MaxCommands
  /\ \A i \in 1..Len(heldCmds) :
       DirectionRank(heldCmds[i].dir) <= DirectionRank(direction)
  /\ heldCmds' = Append(heldCmds, [dir |-> direction, prev |-> <<>>])
  /\ heldStart' = IF heldStart # "unset" THEN heldStart
                  ELSE IF OnWalkableCell(mvMap, playerPos) THEN "walkable"
                  ELSE "other"
  /\ mvLast' = MvDone("newCommand", "null", <<>>)
  /\ UNCHANGED <<playerPos, playerDir, playerAnim, exceptHeld>>

\* heldCmds[i].execute(): NoMovementCommand sets the idle animation and
\* returns true; the others store previousPosition once canExecute passed
HeldExecute(i) ==
  /\ i \in 1..Len(heldCmds)
  /\ IF heldCmds[i].dir = "idle"
     THEN /\ playerAnim' = SetAnimationType("idle")
          /\ mvLast' = MvDone("cmdExecute", "true", <<>>)
          /\ UNCHANGED <<playerPos, playerDir, heldCmds>>
     ELSE /\ ExecuteAs("cmdExecute", heldCmds[i].dir)
          /\ LET t == Target(playerPos, heldCmds[i].dir)
             IN heldCmds' = IF IsValidPosition(mvMap, playerPos, t[1], t[2])
                            THEN [heldCmds EXCEPT ![i].prev = playerPos]
                            ELSE heldCmds
  /\ UNCHANGED <<heldStart, exceptHeld>>

\* heldCmds[i].undo()
HeldUndo(i) ==
  /\ i \in 1..Len(heldCmds)
  /\ IF heldCmds[i].prev = <<>>
     THEN /\ mvLast' = MvDone("undo", "false", <<>>)
          /\ UNCHANGED <<playerPos, playerAnim>>
     ELSE /\ playerPos' = UndoPosition(heldCmds[i].prev, playerPos)
          /\ playerAnim' = SetAnimationType("idle")
          /\ mvLast' = MvDone("undo", "true", <<>>)
  /\ UNCHANGED <<heldCmds, heldStart, playerDir, exceptHeld>>

NextHeld ==
  \/ \E c \in Cells, t \in HeldTileTypes : HeldSetTileAt(c[1], c[2], t)
  \/ \E c \in Cells : HeldSetPosition(c[1], c[2])
  \/ \E d \in HeldDirections : HeldNew(d)
  \/ \E i \in 1..MaxCommands : HeldExecute(i)
  \/ \E i \in 1..MaxCommands : HeldUndo(i)

SpecHeld == Init /\ [][NextHeld]_vars

(***************************************************************************)
(* InputManager (ChainOfResponsibility/InputHandler.ts): processInput      *)
(* queues the command the handler chain builds for a key, executeCommands  *)
(* drains the queue.  A command in the queue is named by its direction,    *)
(* "idle" for NoMovementCommand.  The drain is a loop of calls into the    *)
(* commands, and through them into the player and map objects the caller   *)
(* handed over: one step of the model per command, between which code      *)
(* running inside such a call may call the manager again.                  *)
(***************************************************************************)
\* The state of the world the InputManager never touches.
exceptIn == <<lateVars, invVars, animVars, asVars, mvMap, mvEdits, mvEnabled, cmd, now, heap, ctVars, rt, last,
              storage, svcEnabled, svcAutoSaveEnabled, svcAutoSaveInterval,
              svcLastAutoSave, callVars, sysVars, mgrVars, busVars>>

\* InputHandler.handle along the chain movement -> action -> system
ChainHandle(key) ==
  IF KeyDirection(key) # "none" THEN KeyDirection(key)
  ELSE IF key = " " THEN "idle"
  ELSE "null"

InDone(op, key, st, res) ==
  [op |-> op, key |-> key, st |-> st, res |-> res, n |-> 1 - inLast.n]

\* InputManager.processInput(key)
InProcessInput(key) ==
  /\ IF ChainHandle(key) = "null"
     THEN /\ inLast' = InDone("processInput", key, "returned", <<>>)
          /\ UNCHANGED inQueue
     ELSE /\ Len(inQueue) < MaxQueue
          /\ Len(inQueue) + Len(inResults) < MaxResults
          /\ inQueue' = Append(inQueue, ChainHandle(key))
          /\ inLast' = InDone("processInput", key, "returned",
                              <<ChainHandle(key)>>)
  /\ UNCHANGED <<inProcessing, inResults, playerPos, playerDir, playerAnim,
                 mvLast, exceptIn>>

\* Variant: no isProcessing check.
DrainRefusedNever(isProcessing) == FALSE

\* if (this.isProcessing) return []
DrainRefused(isProcessing) == isProcessing

\* InputManager.executeCommands(): the call, up to the while loop
InExecuteCommands ==
  /\ IF DrainRefused(inProcessing)
     THEN /\ inLast' = InDone("executeCommands", "", "returned", <<>>)
          /\ UNCHANGED <<inProcessing, inResults>>
     ELSE /\ inProcessing' = TRUE
          /\ inResults' = <<>>
          /\ inLast' = InDone("executeCommands", "", "running", <<>>)
  /\ UNCHANGED <<inQueue, playerPos, playerDir, playerAnim, mvLast, exceptIn>>

\* Variant: the command taken is the one queued last.
QueuePop(queue) == <<queue[Len(queue)], SubSeq(queue, 1, Len(queue) - 1)>>

\* commandQueue.shift(): the command taken and the queue left
QueueShift(queue) == <<Head(queue), Tail(queue)>>

\* One turn of the while loop: shift, executeCommand, results.push
InDrainStep ==
  /\ inProcessing
  /\ Len(inQueue) > 0
  /\ LET command == QueueShift(inQueue)[1]
     IN /\ IF command = "idle"
           THEN /\ playerAnim' = SetAnimationType("idle")
                /\ mvLast' = MvDone("drain", "true", <<>>)
                /\ UNCHANGED <<playerPos, playerDir>>
           ELSE ExecuteAs("drain", command)
        /\ inResults' = Append(inResults,
                               [command |-> command, success |-> mvLast'.res])
        /\ inLast' = InDone("execute", "", "running", <<command>>)
  /\ inQueue' = QueueShift(inQueue)[2]
  /\ UNCHANGED <<inProcessing, exceptIn>>

\* The queue is empty: isProcessing = false; return results
InDrainEnd ==
  /\ inProcessing
  /\ Len(inQueue) = 0
  /\ inProcessing' = FALSE
  /\ inLast' = InDone("executeCommands", "", "returned", inResults)
  /\ inResults' = <<>>
  /\ UNCHANGED <<inQueue, playerPos, playerDir, playerAnim, mvLast, exceptIn>>

\* InputManager.clearQueue()
InClearQueue ==
  /\ Len(inQueue) > 0
  /\ inQueue' = <<>>
  /\ inLast' = InDone("clearQueue", "", "returned", <<>>)
  /\ UNCHANGED <<inProcessing, inResults, playerPos, playerDir, playerAnim,
                 mvLast, exceptIn>>

InputKeys == {"w", "d", " ", "x"}

NextInput ==
  \/ \E k \in InputKeys : InProcessInput(k)
  \/ InExecuteCommands
  \/ InDrainStep
  \/ InDrainEnd
  \/ InClearQueue
  \/ PlayerSetPosition(0, 0)

SpecInput == Init /\ [][NextInput]_vars

(***************************************************************************)
(* AnimationComponent (components, part_011): the current animation state  *)
(* and its frame progression.  The configurations are the ones Player      *)
(* registers: idle (1 frame, 1 fps, looping), walk (4 frames, 8 fps,       *)
(* looping), attack (4 frames, 8 fps, not looping; cast is the same).  The *)
(* direction of a state plays no part in its frames and is left out.       *)
(***************************************************************************)
exceptAnim == <<lateVars, invVars, asVars, cmdVars, mvVars, memVars, callVars, sysVars, mgrVars,
                busVars>>

AnimationTypes == {"idle", "walk", "attack"}

\* Player.initializeAnimationSystem: totalFrames, frameRate, isLooping
AnimationConfig(type) ==
  [totalFrames |-> IF type = "idle" THEN 1 ELSE 4,
   frameRate |-> IF type = "idle" THEN 1 ELSE 8,
   isLooping |-> type # "attack"]

AnimDone(op, due, advances) ==
  [op |-> op, due |-> due, advances |-> advances, updates |-> animLast.updates]

\* AnimationComponent.setAnimation(type, direction), the configuration known
AnimSetAnimation(type) ==
  /\ anim' = [type |-> type, currentFrame |-> 0,
              totalFrames |-> AnimationConfig(type).totalFrames,
              frameRate |-> AnimationConfig(type).frameRate,
              isLooping |-> AnimationConfig(type).isLooping,
              isPlaying |-> TRUE]
  /\ animLast' = AnimDone("setAnimation", FALSE, 0)
  /\ UNCHANGED <<animLastFrameTime, animClock, exceptAnim>>

\* currentTime - _lastFrameTime >= 1000 / frameRate
FrameDue(currentTime, lastFrameTime, frameRate) ==
  (currentTime - lastFrameTime) * frameRate >= 1000

\* Variant: the frame after the last one is the last one again.
NextFrameClamped(state) ==
  IF state.currentFrame + 1 >= state.totalFrames
  THEN [state EXCEPT !.currentFrame = state.totalFrames - 1]
  ELSE [state EXCEPT !.currentFrame = state.currentFrame + 1]

\* Variant: a non-looping animation wraps as a looping one does.
NextFrameWrapped(state) ==
  IF state.currentFrame + 1 >= state.totalFrames
  THEN [state EXCEPT !.currentFrame = 0]
  ELSE [state EXCEPT !.currentFrame = state.currentFrame + 1]

\* The state after a frame advance: currentFrame + 1, wrapped to 0 when
\* looping, else held on the last frame with isPlaying false
NextFrame(state) ==
  IF state.currentFrame + 1 >= state.totalFrames
  THEN IF state.isLooping
       THEN [state EXCEPT !.currentFrame = 0]
       ELSE [state EXCEPT !.isPlaying = FALSE,
                          !.currentFrame = state.totalFrames - 1]
  ELSE [state EXCEPT !.currentFrame = state.currentFrame + 1]

\* The times between two update calls, in ms: less than a frame at 8 fps,
\* one frame at 8 fps, one frame at 1 fps.
UpdateDeltas == {60, 125, 1000}

\* AnimationComponent.update(currentTime), currentTime = animClock + delta
AnimUpdate(delta) ==
  /\ animLast.updates < MaxUpdates
  /\ animClock' = animClock + delta
  /\ IF ~anim.isPlaying
     THEN /\ animLast' = [AnimDone("update", FALSE, animLast.advances)
                            EXCEPT !.updates = animLast.updates + 1]
          /\ UNCHANGED <<anim, animLastFrameTime>>
     ELSE IF FrameDue(animClock', animLastFrameTime, anim.frameRate)
     THEN /\ anim' = NextFrame(anim)
          /\ animLastFrameTime' = animClock'
          /\ animLast' = [AnimDone("update", TRUE, animLast.advances + 1)
                            EXCEPT !.updates = animLast.updates + 1]
     ELSE /\ animLast' = [AnimDone("update", FALSE, animLast.advances)
                            EXCEPT !.updates = animLast.updates + 1]
          /\ UNCHANGED <<anim, animLastFrameTime>>
  /\ UNCHANGED exceptAnim

\* AnimationComponent.play()
AnimPlay ==
  /\ ~anim.isPlaying
  /\ anim' = [anim EXCEPT !.isPlaying = TRUE]
  /\ animLast' = AnimDone("play", FALSE, animLast.advances)
  /\ UNCHANGED <<animLastFrameTime, animClock, exceptAnim>>

\* AnimationComponent.pause()
AnimPause ==
  /\ anim.isPlaying
  /\ anim' = [anim EXCEPT !.isPlaying = FALSE]
  /\ animLast' = AnimDone("pause", FALSE, animLast.advances)
  /\ UNCHANGED <<animLastFrameTime, animClock, exceptAnim>>

\* AnimationComponent.stop()
AnimStop ==
  /\ anim' = [anim EXCEPT !.currentFrame = 0, !.isPlaying = FALSE]
  /\ animLast' = AnimDone("stop", FALSE, 0)
  /\ UNCHANGED <<animLastFrameTime, animClock, exceptAnim>>

\* AnimationComponent.reset()
AnimReset ==
  /\ anim' = [anim EXCEPT !.currentFrame = 0, !.isPlaying = TRUE]
  /\ animLast' = AnimDone("reset", FALSE, 0)
  /\ UNCHANGED <<animLastFrameTime, animClock, exceptAnim>>

\* AnimationComponent.isComplete()
IsComplete(state) ==
  ~state.isLooping /\ state.currentFrame >= state.totalFrames - 1

NextAnimation ==
  \/ \E t \in AnimationTypes : AnimSetAnimation(t)
  \/ \E d \in UpdateDeltas : AnimUpdate(d)
  \/ AnimPlay
  \/ AnimPause
  \/ AnimStop
  \/ AnimReset

SpecAnimation == Init /\ [][NextAnimation]_vars

(***************************************************************************)
(* AnimationSystem (packed in Command/MovementCommand.ts): it reacts to    *)
(* player:moved and drives the AnimationComponent of its entities from     *)
(* update(currentTime).  It finds the component with                       *)
(* getComponent('Animation'); an entity files a component under the        *)
(* component's type field.  The system reads the clock only through        *)
(* currentTime - lastUpdateTime, which asSince holds.                      *)
(***************************************************************************)
exceptAs == <<lateVars, invVars, cmdVars, mvVars, memVars, callVars, sysVars, mgrVars, busVars>>

\* setAnimation(type, direction) followed by play()
StartAnimation(type) ==
  [type |-> type, currentFrame |-> 0,
   totalFrames |-> AnimationConfig(type).totalFrames,
   frameRate |-> AnimationConfig(type).frameRate,
   isLooping |-> AnimationConfig(type).isLooping,
   isPlaying |-> TRUE]

\* AnimationSystem.handleMovementEvent, on player:moved
AsPlayerMoved ==
  /\ asMoved' = TRUE
  /\ IF ~EntityHasAnimation
     THEN UNCHANGED <<anim, animLast, asActive, asEvents>>
     ELSE /\ anim' = StartAnimation("walk")
          /\ animLast' = AnimDone("setAnimation", FALSE, 0)
          /\ asActive' = TRUE
          /\ asEvents' = asEvents \cup {"walk_started"}
  /\ UNCHANGED <<animLastFrameTime, animClock, asSince, asSpeed, asEntities,
                 exceptAs>>

\* AnimationSystem.handleMovementFailure, on player:movement_failed
AsPlayerMovementFailed ==
  /\ IF ~EntityHasAnimation
     THEN UNCHANGED <<anim, animLast>>
     ELSE /\ anim' = StartAnimation("idle")
          /\ animLast' = AnimDone("setAnimation", FALSE, 0)
  /\ UNCHANGED <<animLastFrameTime, animClock, asVars, exceptAs>>

\* AnimationSystem.addEntity(player), removeEntity(player.id)
AsSetEntity(present) ==
  /\ asEntities # present
  /\ asEntities' = present
  /\ UNCHANGED <<animVars, asSince, asSpeed, asActive, asMoved, asEvents,
                 exceptAs>>

\* AnimationSystem.setAnimationSpeed(speed): clamped to 1..30
AsSetAnimationSpeed(speed) ==
  /\ asSpeed' = Max(1, Min(30, speed))
  /\ asSpeed' # asSpeed
  /\ UNCHANGED <<animVars, asSince, asEntities, asActive, asMoved, asEvents,
                 exceptAs>>

\* AnimationSystem.update(currentTime), delta ms after the previous call:
\* nothing before 1000 / animationSpeed has passed; then every entity that
\* has an 'Animation' component is updated, a completed walk is turned to
\* idle with animation:walk_completed, and animation:frame_updated is sent.
AsUpdate(delta) ==
  LET since == asSince + delta
      found == asEntities /\ EntityHasAnimation
      due == anim.isPlaying
             /\ FrameDue(animClock + since, animLastFrameTime, anim.frameRate)
      updated == IF due THEN NextFrame(anim) ELSE anim
      done == IsComplete(updated) /\ updated.type = "walk"
  IN IF since * asSpeed < 1000
     THEN /\ asSince' = since
          /\ UNCHANGED <<animVars, asSpeed, asEntities, asActive, asMoved,
                         asEvents, exceptAs>>
     ELSE /\ asSince' = 0
          /\ IF ~found
             THEN UNCHANGED <<animVars, asActive, asEvents>>
             ELSE /\ animClock' = animClock + since
                  /\ animLastFrameTime' =
                       IF due THEN animClock' ELSE animLastFrameTime
                  /\ anim' = IF done THEN StartAnimation("idle") ELSE updated
                  /\ animLast' = AnimDone("update", due,
                                          IF done THEN 0
                                          ELSE IF due THEN animLast.advances + 1
                                          ELSE animLast.advances)
                  /\ asActive' = IF done THEN FALSE ELSE asActive
                  /\ asEvents' = asEvents \cup {"frame_updated"} \cup
                       (IF done THEN {"walk_completed"} ELSE {})
          /\ UNCHANGED <<asSpeed, asEntities, asMoved, exceptAs>>

\* The frame times of the game loop, in ms.
FrameTimes == {60, 125}

AnimationSpeeds == {0, 8, 60}

\* The game loop calls update on every frame.
AsTick == \E d \in FrameTimes : AsUpdate(d)

NextAnimationSystem ==
  \/ AsPlayerMoved
  \/ AsPlayerMovementFailed
  \/ \E b \in BOOLEAN : AsSetEntity(b)
  \/ \E v \in AnimationSpeeds : AsSetAnimationSpeed(v)
  \/ AsTick
  \/ \E t \in AnimationTypes : AnimSetAnimation(t)
  \/ AnimPause
  \/ AnimPlay

SpecAnimationSystem ==
  Init /\ [][NextAnimationSystem]_vars /\ WF_vars(AsTick)

(***************************************************************************)
(* InventoryComponent: the slots of an entity, its gold, and the inventory *)
(* events it emits.  _newItems is a Map keyed by uniqueId, kept here in    *)
(* insertion order; _items is the legacy Map keyed by item id, kept here   *)
(* as the quantity held of each id, 0 for an id that is not a key.         *)
(***************************************************************************)
exceptInv == <<lateVars, cmdVars, animVars, asVars, mvVars, memVars, callVars, sysVars,
               mgrVars, busVars>>

\* Two entries of the item catalogue: a stackable potion, whose stack limit
\* is scaled down to MaxStack, and a sword that does not stack.
ItemIds == {"potion_health", "sword_iron"}

ItemStackable(id) == id = "potion_health"

ItemMaxStack(id) == IF ItemStackable(id) THEN MaxStack ELSE 1

\* The quantities a caller asks for: one unit, or one more than a stack
\* holds.
Quantities == {1, MaxStack + 1}

\* The uniqueIds: one more than there are slots.
Uids == 1..(MaxCapacity + 1)

Capacities == 1..MaxCapacity

GoldAmounts == {0, 1}

\* Item.createInstance: the quantity is cut down to the stack limit.
CreateInstance(id, quantity, uid) ==
  [item |-> id, quantity |-> Min(quantity, ItemMaxStack(id)), uniqueId |-> uid]

InvEntityId == "player"

CurrentCapacity ==
  Cardinality({id \in ItemIds : invItems[id] > 0}) + Len(invNewItems)

IsFullNever == FALSE

IsFull == CurrentCapacity >= invMaxCapacity

HasUid(uid) == \E i \in 1..Len(invNewItems) : invNewItems[i].uniqueId = uid

\* The index of the first slot that holds the item id, 0 for null.
FindItemByItemId(id) ==
  IF \E i \in 1..Len(invNewItems) : invNewItems[i].item = id
  THEN CHOOSE i \in 1..Len(invNewItems) :
         /\ invNewItems[i].item = id
         /\ \A j \in 1..(i - 1) : invNewItems[j].item # id
  ELSE 0

RECURSIVE DeleteUid(_, _)
DeleteUid(items, uid) ==
  IF items = <<>> THEN <<>>
  ELSE IF Head(items).uniqueId = uid THEN DeleteUid(Tail(items), uid)
  ELSE <<Head(items)>> \o DeleteUid(Tail(items), uid)

UpdateItemQuantity(items, uid, newQuantity) ==
  IF newQuantity <= 0 THEN DeleteUid(items, uid)
  ELSE [i \in 1..Len(items) |->
          IF items[i].uniqueId = uid
          THEN [items[i] EXCEPT !.quantity = newQuantity]
          ELSE items[i]]

\* Map.set: a held key keeps its place, a new key goes last.
SetItemInstance(items, inst) ==
  IF \E i \in 1..Len(items) : items[i].uniqueId = inst.uniqueId
  THEN [i \in 1..Len(items) |->
          IF items[i].uniqueId = inst.uniqueId THEN inst ELSE items[i]]
  ELSE Append(items, inst)

EmitInventoryEvent(eventType, message) ==
  [entityId |-> InvEntityId, eventType |-> eventType, message |-> message]

\* What a call was given and what it did; uid is the uniqueId of the
\* instance given to addItemInstance, 0 for the other calls.
InvDoneWith(op, item, quantity, uid, ok, events) ==
  invLast' = [op |-> op, item |-> item, quantity |-> quantity, uid |-> uid,
              ok |-> ok, events |-> events]

InvDone(op, item, quantity, ok, events) ==
  InvDoneWith(op, item, quantity, 0, ok, events)

\* The constructor.
InvNew(maxCapacity) ==
  /\ invItems' = [id \in ItemIds |-> 0]
  /\ invNewItems' = <<>>
  /\ invMaxCapacity' = maxCapacity
  /\ invGold' = 0
  /\ InvDone("new", "", 0, TRUE, <<>>)
  /\ UNCHANGED exceptInv

\* addItemInstance, for a caller that asked for the quantity `requested'.
AddItemInstanceAs(op, requested, inst) ==
  LET i == FindItemByItemId(inst.item) IN
  /\ IF IsFull /\ ~HasUid(inst.uniqueId)
     THEN /\ InvDoneWith(op, inst.item, requested, inst.uniqueId, FALSE,
                         <<EmitInventoryEvent("item_added",
                                              "Inventory is full")>>)
          /\ UNCHANGED invNewItems
     ELSE IF /\ i > 0
             /\ ItemStackable(inst.item)
             /\ invNewItems[i].quantity + inst.quantity
                  <= ItemMaxStack(inst.item)
     THEN /\ invNewItems' =
               UpdateItemQuantity(invNewItems, invNewItems[i].uniqueId,
                                  invNewItems[i].quantity + inst.quantity)
          /\ InvDoneWith(op, inst.item, requested, inst.uniqueId, TRUE,
                         <<EmitInventoryEvent("item_added",
                                              "Added to existing stack")>>)
     ELSE /\ invNewItems' = SetItemInstance(invNewItems, inst)
          /\ InvDoneWith(op, inst.item, requested, inst.uniqueId, TRUE,
                         <<EmitInventoryEvent("item_added", "Added")>>)
  /\ UNCHANGED <<invItems, invMaxCapacity, invGold, exceptInv>>

\* A uniqueId that no held instance has.  The ids are tokens that only
\* equality looks at, so the least one that is free stands for them all.
FreshUid == CHOOSE uid \in Uids :
              /\ ~HasUid(uid)
              /\ \A other \in 1..(uid - 1) : HasUid(other)

\* The uniqueIds a caller can tell apart: the held ones and a free one.
KnownUids == {uid \in Uids : HasUid(uid) \/ uid = FreshUid}

\* addItemInstance: the instance is one that is not held, or one whose
\* uniqueId is held, which is a held instance of that item given again.
InvAddItemInstance(id, quantity, uid) ==
  /\ \/ uid = FreshUid
     \/ \E i \in 1..Len(invNewItems) :
          invNewItems[i].uniqueId = uid /\ invNewItems[i].item = id
  /\ AddItemInstanceAs("addItemInstance", quantity,
                       [item |-> id, quantity |-> quantity, uniqueId |-> uid])

\* addItemById: the factory knows the ids of the catalogue, and the
\* instance it creates has a uniqueId that no held instance has.
InvAddItemById(id, quantity) ==
  IF id \notin ItemIds
  THEN /\ InvDone("addItemById", id, quantity, FALSE,
                  <<EmitInventoryEvent("item_added", "Failed to create item")>>)
       /\ UNCHANGED <<invItems, invNewItems, invMaxCapacity, invGold,
                      exceptInv>>
  ELSE AddItemInstanceAs("addItemById", quantity,
                         CreateInstance(id, quantity, FreshUid))

RemoveItemInstanceAs(op, uid, quantity) ==
  /\ IF ~HasUid(uid)
     THEN /\ InvDone(op, "", quantity, FALSE, <<>>)
          /\ UNCHANGED invNewItems
     ELSE LET inst == invNewItems[CHOOSE i \in 1..Len(invNewItems) :
                                    invNewItems[i].uniqueId = uid]
          IN IF inst.quantity <= quantity
             THEN /\ invNewItems' = DeleteUid(invNewItems, uid)
                  /\ InvDone(op, inst.item, quantity, TRUE,
                             <<EmitInventoryEvent("item_removed",
                                                  "Removed all")>>)
             ELSE /\ invNewItems' =
                       UpdateItemQuantity(invNewItems, uid,
                                          inst.quantity - quantity)
                  /\ InvDone(op, inst.item, quantity, TRUE,
                             <<EmitInventoryEvent("item_removed", "Removed")>>)
  /\ UNCHANGED <<invItems, invMaxCapacity, invGold, exceptInv>>

InvRemoveItemInstance(uid, quantity) ==
  RemoveItemInstanceAs("removeItemInstance", uid, quantity)

InvRemoveItemById(id, quantity) ==
  LET i == FindItemByItemId(id) IN
  IF i = 0
  THEN /\ InvDone("removeItemById", id, quantity, FALSE, <<>>)
       /\ UNCHANGED <<invItems, invNewItems, invMaxCapacity, invGold,
                      exceptInv>>
  ELSE RemoveItemInstanceAs("removeItemById", invNewItems[i].uniqueId,
                            quantity)

\* The legacy addItem, for an InventoryItem whose maxStack is the
\* catalogue's.
InvAddItem(id, quantity) ==
  /\ IF IsFull /\ invItems[id] = 0
     THEN /\ InvDone("addItem", id, quantity, FALSE, <<>>)
          /\ UNCHANGED invItems
     ELSE IF invItems[id] > 0
     THEN IF invItems[id] + quantity <= ItemMaxStack(id)
          THEN /\ invItems' = [invItems EXCEPT ![id] = @ + quantity]
               /\ InvDone("addItem", id, quantity, TRUE, <<>>)
          ELSE /\ InvDone("addItem", id, quantity, FALSE, <<>>)
               /\ UNCHANGED invItems
     ELSE /\ invItems' = [invItems EXCEPT ![id] = quantity]
          /\ InvDone("addItem", id, quantity, TRUE, <<>>)
  /\ UNCHANGED <<invNewItems, invMaxCapacity, invGold, exceptInv>>

InvRemoveItem(id, quantity) ==
  /\ IF invItems[id] = 0
     THEN /\ InvDone("removeItem", id, quantity, FALSE, <<>>)
          /\ UNCHANGED invItems
     ELSE /\ invItems' =
               [invItems EXCEPT
                  ![id] = IF @ <= quantity THEN 0 ELSE @ - quantity]
          /\ InvDone("removeItem", id, quantity, TRUE, <<>>)
  /\ UNCHANGED <<invNewItems, invMaxCapacity, invGold, exceptInv>>

InvAddGold(amount) ==
  /\ invGold + Max(0, amount) <= MaxGold
  /\ invGold' = invGold + Max(0, amount)
  /\ InvDone("addGold", "", amount, TRUE,
             <<EmitInventoryEvent("gold_changed", "Added gold")>>)
  /\ UNCHANGED <<invItems, invNewItems, invMaxCapacity, exceptInv>>

InvRemoveGold(amount) ==
  /\ IF invGold >= amount
     THEN /\ invGold' = invGold - amount
          /\ InvDone("removeGold", "", amount, TRUE,
                     <<EmitInventoryEvent("gold_changed", "Removed gold")>>)
     ELSE /\ InvDone("removeGold", "", amount, FALSE, <<>>)
          /\ UNCHANGED invGold
  /\ UNCHANGED <<invItems, invNewItems, invMaxCapacity, exceptInv>>

InvClear ==
  /\ invItems' = [id \in ItemIds |-> 0]
  /\ invGold' = 0
  /\ InvDone("clear", "", 0, TRUE, <<>>)
  /\ UNCHANGED <<invNewItems, invMaxCapacity, exceptInv>>

FactoryIds == ItemIds \cup {"unknown"}

\* The ids of the InventoryItems that callers of the legacy calls hold.
LegacyIds == {"potion_health"}

NextInventory ==
  \/ \E c \in Capacities : InvNew(c)
  \/ \E id \in ItemIds, q \in Quantities, u \in KnownUids :
       InvAddItemInstance(id, q, u)
  \/ \E id \in FactoryIds, q \in Quantities : InvAddItemById(id, q)
  \/ \E u \in KnownUids, q \in Quantities : InvRemoveItemInstance(u, q)
  \/ \E id \in ItemIds, q \in Quantities : InvRemoveItemById(id, q)
  \/ \E id \in LegacyIds, q \in Quantities : InvAddItem(id, q)
  \/ \E id \in LegacyIds, q \in Quantities : InvRemoveItem(id, q)
  \/ \E a \in GoldAmounts : InvAddGold(a)
  \/ \E a \in GoldAmounts : InvRemoveGold(a)
  \/ InvClear

SpecInventory == Init /\ [][NextInventory]_vars

\* The adds and the removes of a constructed inventory.
NextSlots ==
  \/ \E id \in ItemIds, q \in Quantities, u \in KnownUids :
       InvAddItemInstance(id, q, u)
  \/ \E id \in ItemIds, q \in Quantities : InvAddItemById(id, q)
  \/ \E u \in KnownUids, q \in Quantities : InvRemoveItemInstance(u, q)
  \/ \E id \in ItemIds, q \in Quantities : InvRemoveItemById(id, q)
  \/ \E id \in LegacyIds, q \in Quantities : InvAddItem(id, q)
  \/ \E id \in LegacyIds, q \in Quantities : InvRemoveItem(id, q)

SpecSlots == Init /\ [][NextSlots]_vars

(***************************************************************************)
(* ItemDecoratorFactory.createEnhancedItem and the decorators it builds.   *)
(* A decorated item is the decorator's class, the item it wraps and the    *)
(* decorator's own fields; "Item" is the bare item.                        *)
(***************************************************************************)
BaseItems == {"sword_iron", "sword_steel"}

ItemName(item) == IF item = "sword_iron" THEN "Iron Sword" ELSE "Steel Sword"

EnchantmentTypes == {"fire", "ice"}

EnchantmentLevels == {1, 5}

\* What a caller passes as enhancements.enchantment: a type with a level, or
\* nothing (type "").
Enchantments ==
  {[type |-> "", level |-> 0]}
    \cup [type : EnchantmentTypes, level : EnchantmentLevels]

\* enhancements.durability: 0 is falsy and asks for nothing.
Durabilities == {0, 50, 200}

\* enhancements.legendary: the empty string is falsy and asks for nothing.
LegendaryEffects == {"", "Dragon Slayer"}

Enhancements ==
  [enchantment : Enchantments, durability : Durabilities,
   masterwork : BOOLEAN, legendary : LegendaryEffects]

BareItem(item) ==
  [decorator |-> "Item", item |-> item, enchantmentType |-> "",
   enchantmentLevel |-> 0, maxDurability |-> 0, currentDurability |-> 0]

NewLegendaryItemDecorator(item) ==
  [BareItem(item) EXCEPT !.decorator = "Legendary"]

NewMasterworkItemDecorator(item) ==
  [BareItem(item) EXCEPT !.decorator = "Masterwork"]

NewDurableItemDecorator(item, maxDurability) ==
  [BareItem(item) EXCEPT !.decorator = "Durable",
                         !.maxDurability = maxDurability,
                         !.currentDurability = maxDurability]

NewEnchantedItemDecorator(item, type, level) ==
  [BareItem(item) EXCEPT !.decorator = "Enchanted",
                         !.enchantmentType = type,
                         !.enchantmentLevel = Max(1, Min(10, level))]

\* createEnhancedItem: each branch that is taken builds its decorator around
\* the item that was passed in and overwrites enhancedItem.
CreateEnhancedItem(item, enhancements) ==
  LET e0 == BareItem(item)
      e1 == IF enhancements.legendary # ""
            THEN NewLegendaryItemDecorator(item) ELSE e0
      e2 == IF enhancements.masterwork
            THEN NewMasterworkItemDecorator(item) ELSE e1
      e3 == IF enhancements.durability # 0
            THEN NewDurableItemDecorator(item, enhancements.durability)
            ELSE e2
  IN IF enhancements.enchantment.type # ""
     THEN NewEnchantedItemDecorator(item, enhancements.enchantment.type,
                                    enhancements.enchantment.level)
     ELSE e3

EnchantmentPrefix(type) ==
  IF type = "fire" THEN "Flaming"
  ELSE IF type = "ice" THEN "Frozen"
  ELSE "Enchanted"

\* getDurabilitySuffix, for the ratio currentDurability / maxDurability.
DurabilitySuffix(d) ==
  IF d.currentDurability * 10 >= d.maxDurability * 8 THEN "(Excellent)"
  ELSE IF d.currentDurability * 10 >= d.maxDurability * 6 THEN "(Good)"
  ELSE IF d.currentDurability * 10 >= d.maxDurability * 4 THEN "(Fair)"
  ELSE IF d.currentDurability * 10 >= d.maxDurability * 2 THEN "(Poor)"
  ELSE IF d.currentDurability > 0 THEN "(Damaged)"
  ELSE "(Broken)"

\* getDisplayName, as the words of the name.
GetDisplayName(d) ==
  IF d.decorator = "Enchanted"
  THEN <<EnchantmentPrefix(d.enchantmentType), ItemName(d.item)>>
  ELSE IF d.decorator = "Durable"
  THEN <<ItemName(d.item), DurabilitySuffix(d)>>
  ELSE IF d.decorator = "Masterwork" THEN <<"Masterwork", ItemName(d.item)>>
  ELSE IF d.decorator = "Legendary" THEN <<"Legendary", ItemName(d.item)>>
  ELSE <<ItemName(d.item), "(common)">>

IsEnchanted(d) == d.decorator = "Enchanted"

\* getDurability of a decorator: ItemDecorator answers 100.
GetDurability(d) ==
  IF d.decorator = "Durable" THEN d.currentDurability ELSE 100

DecCreateEnhancedItem(item, enhancements) ==
  /\ decRequest' = [item |-> item,
                    enchantment |-> enhancements.enchantment,
                    durability |-> enhancements.durability,
                    masterwork |-> enhancements.masterwork,
                    legendary |-> enhancements.legendary]
  /\ decItem' = CreateEnhancedItem(item, enhancements)
  /\ UNCHANGED exceptDec

NextDecorator ==
  \E item \in BaseItems, e \in Enhancements : DecCreateEnhancedItem(item, e)

SpecDecorator == Init /\ [][NextDecorator]_vars

(***************************************************************************)
(* TileFlyweightFactory: one static Map from tile type to TileFlyweight.   *)
(* A TileFlyweight object is known by the order of its construction.       *)
(***************************************************************************)
FlyweightsHasNever(type) == FALSE

\* this.flyweights.has(type)
FlyweightsHas(type) == fwFlyweights[type] # 0

GetFlyweightCount == Cardinality({t \in TileTypes : fwFlyweights[t] # 0})

\* getFlyweight, on the factory (flyweights, fresh): the map afterwards,
\* the next identity and the object returned.
GetFlyweight(flyweights, fresh, has, type) ==
  IF has
  THEN [flyweights |-> flyweights, nextId |-> fresh,
        returned |-> flyweights[type]]
  ELSE [flyweights |-> [flyweights EXCEPT ![type] = fresh],
        nextId |-> fresh + 1, returned |-> fresh]

FwGetFlyweight(type) ==
  LET r == GetFlyweight(fwFlyweights, fwNextId, FlyweightsHas(type), type) IN
  /\ r.nextId <= MaxFlyweights + 1
  /\ fwFlyweights' = r.flyweights
  /\ fwNextId' = r.nextId
  /\ fwReturned' = [fwReturned EXCEPT ![type] = @ \cup {r.returned}]
  /\ fwSince' = [fwSince EXCEPT ![type] = @ \cup {r.returned}]
  /\ UNCHANGED exceptFw

FwClear ==
  /\ fwFlyweights' = [t \in TileTypes |-> 0]
  /\ fwSince' = [t \in TileTypes |-> {}]
  /\ UNCHANGED <<fwNextId, fwReturned, exceptFw>>

\* The tile types in the order of the TileType enum.
AllTypes == <<"grass", "water", "mountain", "forest">>

RECURSIVE PreloadFrom(_, _, _, _)
PreloadFrom(k, flyweights, fresh, returned) ==
  IF k > Len(AllTypes)
  THEN [flyweights |-> flyweights, nextId |-> fresh, returned |-> returned]
  ELSE LET r == GetFlyweight(flyweights, fresh,
                             flyweights[AllTypes[k]] # 0, AllTypes[k])
       IN PreloadFrom(k + 1, r.flyweights, r.nextId,
                      [returned EXCEPT ![AllTypes[k]] = @ \cup {r.returned}])

\* preloadAll: getFlyweight for every tile type.
FwPreloadAll ==
  LET r == PreloadFrom(1, fwFlyweights, fwNextId,
                       [t \in TileTypes |-> {}]) IN
  /\ r.nextId <= MaxFlyweights + 1
  /\ fwFlyweights' = r.flyweights
  /\ fwNextId' = r.nextId
  /\ fwReturned' = [t \in TileTypes |-> fwReturned[t] \cup r.returned[t]]
  /\ fwSince' = [t \in TileTypes |-> fwSince[t] \cup r.returned[t]]
  /\ UNCHANGED exceptFw

NextFlyweight ==
  \/ \E t \in TileTypes : FwGetFlyweight(t)
  \/ FwClear
  \/ FwPreloadAll

SpecFlyweight == Init /\ [][NextFlyweight]_vars

(***************************************************************************)
(* The Map as a composite: its children are the layers that createLayer    *)
(* adds, and the children of a layer are the TileComponents added to it.   *)
(* A TileComponent is its own 1x1 bounds and the type of the tile it       *)
(* holds.                                                                  *)
(***************************************************************************)
\* MapComponent.isWithinBounds, for the map and for its layers.
IsWithinBounds(x, y) == x >= 0 /\ x < MapWidth /\ y >= 0 /\ y < MapHeight

\* TileComponent.getTile: the type of the tile, "null" out of its bounds.
LeafGetTile(leaf, x, y) ==
  IF x = leaf.x /\ y = leaf.y THEN leaf.type ELSE "null"

\* MapComposite.getTile on a list of leaves: the first one that answers.
RECURSIVE LayerGetTile(_, _, _)
LayerGetTile(leaves, x, y) ==
  IF ~IsWithinBounds(x, y) \/ leaves = <<>> THEN "null"
  ELSE IF LeafGetTile(Head(leaves), x, y) # "null"
  THEN LeafGetTile(Head(leaves), x, y)
  ELSE LayerGetTile(Tail(leaves), x, y)

\* MapComposite.getTile on the map: the first layer that answers.
RECURSIVE MapGetTile(_, _, _)
MapGetTile(layers, x, y) ==
  IF ~IsWithinBounds(x, y) \/ layers = <<>> THEN "null"
  ELSE IF LayerGetTile(Head(layers), x, y) # "null"
  THEN LayerGetTile(Head(layers), x, y)
  ELSE MapGetTile(Tail(layers), x, y)

\* MapComposite.setTile on a list of leaves: the first leaf whose bounds
\* hold the coordinate takes the tile.
RECURSIVE LayerSetTile(_, _, _, _)
LayerSetTile(leaves, x, y, type) ==
  IF ~IsWithinBounds(x, y) \/ leaves = <<>>
  THEN [ok |-> FALSE, children |-> leaves]
  ELSE IF x = Head(leaves).x /\ y = Head(leaves).y
  THEN [ok |-> TRUE,
        children |-> <<[Head(leaves) EXCEPT !.type = type]>> \o Tail(leaves)]
  ELSE LET r == LayerSetTile(Tail(leaves), x, y, type)
       IN [ok |-> r.ok, children |-> <<Head(leaves)>> \o r.children]

\* MapComposite.setTile on the map: the first layer that takes the tile.
RECURSIVE MapSetTile(_, _, _, _)
MapSetTile(layers, x, y, type) ==
  IF ~IsWithinBounds(x, y) \/ layers = <<>>
  THEN [ok |-> FALSE, children |-> layers]
  ELSE LET h == LayerSetTile(Head(layers), x, y, type)
       IN IF h.ok
          THEN [ok |-> TRUE, children |-> <<h.children>> \o Tail(layers)]
          ELSE LET r == MapSetTile(Tail(layers), x, y, type)
               IN [ok |-> r.ok, children |-> <<Head(layers)>> \o r.children]

RECURSIVE TileCount(_)
TileCount(layers) ==
  IF layers = <<>> THEN 0 ELSE Len(Head(layers)) + TileCount(Tail(layers))

CmpDone(op, x, y, type, ok) ==
  cmpLast' = [op |-> op, x |-> x, y |-> y, type |-> type, ok |-> ok]

CmpCreateLayer ==
  /\ Len(cmpLayers) < MaxLayers
  /\ cmpLayers' = Append(cmpLayers, <<>>)
  /\ CmpDone("createLayer", 0, 0, "", TRUE)
  /\ UNCHANGED exceptCmp

\* layer.add(new TileComponent(tile)), as generateRandomMap does.
CmpLayerAdd(k, x, y, type) ==
  /\ k \in 1..Len(cmpLayers)
  /\ TileCount(cmpLayers) < MaxTiles
  /\ cmpLayers' = [cmpLayers EXCEPT ![k] = Append(@, [x |-> x, y |-> y,
                                                      type |-> type])]
  /\ CmpDone("add", x, y, type, TRUE)
  /\ UNCHANGED exceptCmp

CmpSetTileAt(x, y, type) ==
  LET r == MapSetTile(cmpLayers, x, y, type) IN
  /\ cmpLayers' = r.children
  /\ CmpDone("setTileAt", x, y, type, r.ok)
  /\ UNCHANGED exceptCmp

\* The coordinates callers pass: the cells of the map and one past each
\* edge.
CmpXs == -1..MapWidth

CmpYs == -1..MapHeight

CmpTypes == {"grass", "water"}

NextComposite ==
  \/ CmpCreateLayer
  \/ \E k \in 1..MaxLayers, x \in 0..(MapWidth - 1), y \in 0..(MapHeight - 1),
        t \in CmpTypes : CmpLayerAdd(k, x, y, t)
  \/ \E x \in CmpXs, y \in CmpYs, t \in CmpTypes : CmpSetTileAt(x, y, t)

SpecComposite == Init /\ [][NextComposite]_vars

(***************************************************************************)
(* The lifecycle events of SaveLoadService.saveGame and loadGame, as an    *)
(* observer subscribed to saveLoad:event sees them.                        *)
(***************************************************************************)
LifecycleEventsBothEnds(enabled, threw, op) ==
  IF ~enabled THEN <<>>
  ELSE IF threw THEN <<op \o "_started", op \o "_completed", op \o "_failed">>
  ELSE <<op \o "_started", op \o "_completed">>

\* The events of one call: nothing from a disabled service, which throws
\* before the try block; else <op>_started, and then <op>_failed from the
\* catch block when the try block threw, <op>_completed from its end when
\* it did not.
LifecycleEvents(enabled, threw, op) ==
  IF ~enabled THEN <<>>
  ELSE IF threw THEN <<op \o "_started", op \o "_failed">>
  ELSE <<op \o "_started", op \o "_completed">>

\* saveGame with an observer: the try block throws when createGameState
\* throws or when saveToStorage does.
EvSaveGame(saveName, writeOk) ==
  /\ SvcSaveGameBody(saveName, writeOk)
  /\ svcEvents' = LifecycleEvents(svcEnabled,
                                  CreateGameStateThrows \/ ~writeOk, "save")
  /\ svcWriteOk' = writeOk
  /\ UNCHANGED exceptEv

\* loadGame with an observer: the try block throws when the caretaker's
\* loadGame does.
EvLoadGame(saveId) ==
  /\ SvcLoadGameBody(saveId)
  /\ svcEvents' = LifecycleEvents(svcEnabled,
                                  LoadGameThrows(heap, mementos, saveId),
                                  "load")
  /\ svcWriteOk' = TRUE
  /\ UNCHANGED exceptEv

NextEvents ==
  \/ \E n \in SaveNames, w \in BOOLEAN : EvSaveGame(n, w)
  \/ \E id \in LoadIds(mementos) : EvLoadGame(id)
  \/ \E json \in ImportInputs(ServiceEntries), w \in StorageWrites :
       SvcImportSaves(json, w)
  \/ \E b \in BOOLEAN : SvcSetEnabled(b)
  \/ \E pos \in Positions : MovePlayer(pos)

SpecEvents == Init /\ [][NextEvents]_vars

(***************************************************************************)
(* The cascade a saveLoad:event sets off on the event bus.  EventBus.emit  *)
(* calls the listeners of the topic one after the other, and a listener    *)
(* that emits runs that emit to its end before it returns: the emits in    *)
(* progress form a stack.                                                  *)
(***************************************************************************)
SaveLoadTopics ==
  {"saveLoad:event", "saveLoad:system_event", "saveLoad:manager_event"}

\* Variant: the manager answers a system event with a service event.
HandlerEmitsBack(handler) ==
  CASE handler = "handleSaveLoadEvent" -> "saveLoad:system_event"
    [] handler = "handleSystemEvent" -> "saveLoad:event"
    [] handler = "handleServiceEvent" -> "saveLoad:manager_event"

\* The topic each handler emits on: SaveLoadSystem.handleSaveLoadEvent,
\* SaveLoadManager.handleSystemEvent and handleServiceEvent (through
\* emitManagerEvent)
HandlerEmits(handler) ==
  CASE handler = "handleSaveLoadEvent" -> "saveLoad:system_event"
    [] handler = "handleSystemEvent" -> "saveLoad:manager_event"
    [] handler = "handleServiceEvent" -> "saveLoad:manager_event"

\* EventBus.on(event, callback)
On(listeners, topic, handler) ==
  [listeners EXCEPT ![topic] = Append(@, handler)]

\* How many listeners of the topic are the handler.
Subscribed(topic, handler) ==
  Cardinality({i \in 1..Len(casListeners[topic]) :
                 casListeners[topic][i] = handler})

\* new SaveLoadSystem(): setupEventListeners
SystemListeners(listeners) ==
  On(listeners, "saveLoad:event", "handleSaveLoadEvent")

\* new SaveLoadSystem()
CasNewSystem ==
  /\ casStack = <<>>
  /\ Subscribed("saveLoad:event", "handleSaveLoadEvent") < MaxSystems
  /\ casListeners' = SystemListeners(casListeners)
  /\ UNCHANGED <<casStack, casCount, exceptCas>>

\* new SaveLoadManager(): it makes a SaveLoadSystem of its own, then
\* subscribes in setupEventListeners
CasNewManager ==
  /\ casStack = <<>>
  /\ Subscribed("saveLoad:event", "handleSaveLoadEvent") < MaxSystems
  /\ Subscribed("saveLoad:event", "handleServiceEvent") < MaxManagers
  /\ casListeners' =
       On(On(SystemListeners(casListeners),
             "saveLoad:system_event", "handleSystemEvent"),
          "saveLoad:event", "handleServiceEvent")
  /\ UNCHANGED <<casStack, casCount, exceptCas>>

\* SaveLoadService.emitSaveLoadEvent: eventBus.emit('saveLoad:event', event)
\* is entered
CasEmit ==
  /\ casStack = <<>>
  /\ casStack' = <<[topic |-> "saveLoad:event", next |-> 1]>>
  /\ casCount' = [t \in SaveLoadTopics |->
                    IF t = "saveLoad:event" THEN 1 ELSE 0]
  /\ UNCHANGED <<casListeners, exceptCas>>

\* One turn of the innermost emit's forEach: the next listener is called
\* and enters the emit it makes.
CasCall ==
  /\ casStack # <<>>
  /\ Len(casStack) < MaxDepth
  /\ LET top == casStack[Len(casStack)]
     IN /\ top.next <= Len(casListeners[top.topic])
        /\ LET emitted == HandlerEmits(casListeners[top.topic][top.next])
           IN /\ casStack' =
                   Append([casStack EXCEPT ![Len(casStack)].next = @ + 1],
                          [topic |-> emitted, next |-> 1])
              /\ casCount' = [casCount EXCEPT ![emitted] = @ + 1]
  /\ UNCHANGED <<casListeners, exceptCas>>

\* The innermost emit has called every listener of its topic and returns.
CasReturn ==
  /\ casStack # <<>>
  /\ LET top == casStack[Len(casStack)]
     IN top.next > Len(casListeners[top.topic])
  /\ casStack' = SubSeq(casStack, 1, Len(casStack) - 1)
  /\ UNCHANGED <<casListeners, casCount, exceptCas>>

NextCascade ==
  \/ CasNewSystem
  \/ CasNewManager
  \/ CasEmit
  \/ CasCall
  \/ CasReturn

SpecCascade == Init /\ [][NextCascade]_vars

\* An emit is a synchronous call: once entered, the loop over the listeners
\* and the emits inside it run on until they return.
SpecCascadeFair ==
  Init /\ [][NextCascade]_vars /\ WF_vars(CasCall) /\ WF_vars(CasReturn)

(***************************************************************************)
(* Claims.                                                                 *)
(***************************************************************************)
MementoOf(mems, id) == mems[CHOOSE i \in 1..Len(mems) : mems[i].id = id]
TimestampOf(mems, id) == MementoOf(mems, id).timestamp

\* C2: for a valid memento m, fromJSON(m.toJSON()) has the id, timestamp and
\* version of m and a state and metadata deep-equal to those of m.
C2_RoundTripIdentity ==
  (/\ last.op = "roundTrip"
   /\ rt.orig.id # 0 /\ rt.orig.timestamp > 0 /\ rt.orig.version # ""
   /\ rt.orig.state.cell.pos # NoPos
   /\ rt.orig.state.cell.map # NoVal
   /\ rt.orig.state.cell.gold # NoVal)
  => rt.copy = rt.orig

\* C3: what a stored memento holds (its state with every nested object, and
\* its metadata) is the same after any step as before it.
C3_MementoNeverChanges ==
  [][\A id \in Ids(mementos) \cap Ids(mementos') :
       Deep(heap', MementoOf(mementos', id)) = Deep(heap, MementoOf(mementos, id))]_vars

\* C4: after n > maxSaves saves with strictly increasing timestamps, the
\* n - maxSaves saves with the smallest timestamps (the first ones made) are
\* gone, the others are held, and getSaveCount() = maxSaves.
C4_OldestFirstEviction ==
  LET n == nextId - 1
  IN n > maxSaves =>
       /\ Len(mementos) = maxSaves
       /\ Ids(mementos) = (n - maxSaves + 1)..n
       /\ \A i, j \in 1..Len(mementos) :
            mementos[i].id < mementos[j].id
              => mementos[i].timestamp < mementos[j].timestamp

C4_Witness ==
  /\ maxSaves = 1
  /\ nextId = MaxIds + 1
  /\ Ids(mementos) = {MaxIds}

\* C5: the caretaker never holds more than maxSaves mementos.
C5_SaveSetBounded == Len(mementos) <= maxSaves

C5_Witness ==
  /\ last.op = "setMaxSaves"
  /\ nextId = MaxIds + 1
  /\ maxSaves < MaxIds
  /\ Len(mementos) = maxSaves

\* C6: an autoSave call less than autoSaveInterval ms after the last
\* performed one returns null and changes neither the save set nor
\* lastAutoSave; a call at least autoSaveInterval ms after it records the
\* time and (the originator having a state) stores a new memento named
\* "Auto Save".
C6_AutoSaveThrottling ==
  [][last'.op = "autoSave" =>
       IF now - lastAutoSave < autoSaveInterval
       THEN /\ last'.res = "null"
            /\ mementos' = mementos
            /\ lastAutoSave' = lastAutoSave
       ELSE /\ lastAutoSave' = now
            /\ curState # NoState =>
                 /\ last'.res = "ok"
                 /\ nextId \notin Ids(mementos)
                 /\ nextId \in Ids(mementos')
                 /\ MementoOf(mementos', nextId).metadata.saveName = "Auto Save"
                 /\ \A i \in 1..Len(mementos') :
                      mementos'[i].id # nextId
                        => mementos'[i] \in Range(mementos)]_vars

C6_Witness ==
  /\ last.op = "autoSave"
  /\ last.res = "null"
  /\ now > lastAutoSave
  /\ Cardinality({i \in 1..Len(mementos) :
                    mementos[i].metadata.saveName = "Auto Save"}) = 2

\* C7: loadGame of a stored memento that lacks an id, a timestamp, a version
\* or one of state.player, state.map, state.inventory, or whose version is
\* not "1.0.0", throws and leaves the originator's current state as it was.
StructurallyValid(h, m) ==
  /\ m.id # 0 /\ m.timestamp > 0 /\ m.version # ""
  /\ m.state.nested # 0
  /\ h[m.state.nested].pos # NoPos
  /\ h[m.state.nested].map # NoVal
  /\ h[m.state.nested].gold # NoVal

C7_RestoreRejects ==
  [][(/\ last'.op = "loadGame"
      /\ last'.id \in Ids(mementos)
      /\ \/ ~StructurallyValid(heap, MementoOf(mementos, last'.id))
         \/ MementoOf(mementos, last'.id).version # "1.0.0")
     => (last'.res = "throw" /\ curState' = curState)]_vars

C7_Witness ==
  /\ last.op = "loadGame"
  /\ last.res = "throw"
  /\ last.id \in Ids(mementos)
  /\ curState # NoState
  /\ MementoOf(mementos, last.id).version # "1.0.0"

\* C8: importSaves of a JSON array stores a memento for every entry that
\* parses and has an id, a version (or none: the default) and the player,
\* map and inventory of its state; entries that do not are skipped; saves
\* held before stay as they were unless an entry has their id, and leave
\* only by the pruning to maxSaves, oldest timestamps first.
EntryValid(e) ==
  /\ e.kind = "object"
  /\ e.id # 0 /\ e.version # ""
  /\ e.pos # NoPos /\ e.map # NoVal /\ e.gold # NoVal

ValidIds(items) == {items[i].id : i \in {k \in 1..Len(items) : EntryValid(items[k])}}

LastValid(items, id) ==
  items[CHOOSE i \in 1..Len(items) :
          /\ EntryValid(items[i]) /\ items[i].id = id
          /\ \A j \in (i + 1)..Len(items) :
               ~(EntryValid(items[j]) /\ items[j].id = id)]

C8_ImportSkipsInvalid ==
  [][(last'.op = "importSaves" /\ last'.res = "array") =>
       LET items == last'.arg
           all == Ids(mementos) \cup ValidIds(items)
           kept == Ids(mementos')
       IN /\ kept \subseteq all
          /\ Cardinality(kept) = Min(Cardinality(all), maxSaves)
          /\ Len(mementos') = Cardinality(kept)
          /\ \A id \in kept \cap ValidIds(items) :
               LET m == MementoOf(mementos', id)
                   e == LastValid(items, id)
               IN /\ heap'[m.state.nested].pos = e.pos
                  /\ m.metadata.saveName = e.saveName
                  /\ m.version = IF e.version = UndefVersion THEN "1.0.0"
                                 ELSE e.version
          /\ \A id \in kept \ ValidIds(items) :
               MementoOf(mementos', id) = MementoOf(mementos, id)
          /\ \A gone \in (all \ kept) \cap Ids(mementos), id \in kept :
               TimestampOf(mementos, gone) <= TimestampOf(mementos', id)]_vars

C8_Witness ==
  /\ last.op = "importSaves"
  /\ last.res = "array"
  /\ Len(last.arg) = 2
  /\ ~EntryValid(last.arg[1])
  /\ EntryValid(last.arg[2])
  /\ last.arg[2].id \in Ids(mementos)
  /\ Len(mementos) = 2

\* C9: after importSaves of a text that is no JSON the save set is empty.
C9_UnparseableImportResets ==
  (last.op = "importSaves" /\ last.res = "unparseable") => mementos = <<>>

C9_Witness ==
  /\ last.op = "importSaves"
  /\ last.res = "unparseable"
  /\ nextId > 1
  /\ mementos = <<>>

\* C1: an enabled saveGame stores a memento that holds the position the live
\* player has at that moment; moving the player and saving again change no
\* stored memento; loadGame returns the position its memento holds.
C1_SnapshotIsolation ==
  [][/\ (last'.op = "svcSaveGame" /\ svcEnabled) =>
          /\ last'.res = "ok"
          /\ nextId \in Ids(mementos')
          /\ CellOf(heap', MementoOf(mementos', nextId).state).pos = playerPos
     /\ last'.op \in {"movePlayer", "svcSaveGame", "svcAutoSave", "tick"} =>
          \A id \in Ids(mementos) \cap Ids(mementos') :
             Deep(heap', MementoOf(mementos', id))
               = Deep(heap, MementoOf(mementos, id))
     /\ (last'.op = "svcLoadGame" /\ last'.res = "ok") =>
          CellValue(CellOf(heap', curState'))
            = CellValue(CellOf(heap, MementoOf(mementos, last'.id).state))]_vars

\* C10: whenever the last call did not throw, the save ids in the stored
\* JSON array are those of the caretaker's save set, in the same order (no
\* stored item counting as the empty array).
StoredIds(text) == [i \in 1..Len(text.items) |-> text.items[i].id]

C10_StorageMirrorsSaveSet ==
  last.res # "throw" =>
    /\ storage.kind \in {"array", "null"}
    /\ StoredIds(storage) = [i \in 1..Len(mementos) |-> mementos[i].id]

C12_UpdateAccumulates ==
  [][/\ (sysLast'.op = "update" /\ sysEnabled /\ sysPlayer /\ sysMap) =>
          LET acc == sysTimer + sysLast'.dt
          IN /\ sysLast'.fired <=> (acc >= sysInterval)
             /\ sysTimer' = IF acc >= sysInterval THEN 0 ELSE acc
             /\ sysTimer' < sysInterval
     /\ sysLast'.op = "game:resume" => sysTimer' = 0]_vars

C12_Witness ==
  /\ sysLast.op = "update"
  /\ sysLast.fired
  /\ sysLast.dt < sysInterval
  /\ sysTimer = 0

\* C13: while the system is disabled no event and no update runs its
\* autoSave().
C13_DisabledNeverSaves ==
  [][(~sysEnabled /\ ~sysEnabled') => ~sysLast'.fired]_vars

\* C14: on a manager that is not initialized, saveGame, quickSave,
\* forceAutoSave, loadGame, loadLatestSave and registerGameEntities throw,
\* and save, load and register nothing.
C14_UninitializedThrows ==
  [][(/\ ~mgrInitialized
      /\ mgrLast'.op \in {"saveGame", "quickSave", "forceAutoSave", "loadGame",
                          "loadLatestSave", "registerGameEntities"}) =>
        /\ mgrLast'.res = "throw"
        /\ UNCHANGED <<mementos, mgrSaves, curState, storage, sysPlayer,
                       sysMap>>]_vars

\* C15: on an initialized manager with player and map registered,
\* saveGame(name) resolves true, and then the manager lists the new save
\* (getAvailableSaves, hasSave) and loadGame of its id resolves true.
C15_SavedGameIsVisible ==
  [][(/\ mgrInitialized /\ sysPlayer /\ sysMap
      /\ mgrLast'.op = "saveGame") =>
        /\ mgrLast'.res = "true"
        /\ mgrLast'.id \in Ids(mgrSaves')
        /\ ~LoadGameThrows(heap', mementos', mgrLast'.id)]_vars

\* C16: forceAutoSave on an initialized manager with player and map
\* registered stores a save whatever the time of the last one, and leaves
\* the interval of the system and of its service as it was.
C16_ForceAutoSaveRestoresInterval ==
  [][(mgrInitialized /\ sysPlayer /\ sysMap
      /\ mgrLast'.op = "forceAutoSave") =>
        /\ sysInterval' = sysInterval
        /\ svcAutoSaveInterval' = svcAutoSaveInterval
        /\ nextId \in Ids(mementos')]_vars

\* The number of times callback h was invoked.
TimesCalled(called, h) == Cardinality({i \in 1..Len(called) : called[i] = h})

\* C17: when emit returns, every callback that was subscribed when emit was
\* called and was not unsubscribed meanwhile has been invoked exactly once,
\* no callback more than once, and the invoked callbacks of those subscribed
\* at the call were invoked in the order of their registration.
C17_EmitReachesEverySubscriber ==
  [][(busPc = "emit" /\ busPc' = "idle") =>
       /\ \A h \in Range(busSnap) \cap Range(busListeners) :
            TimesCalled(busCalled, h) = 1
       /\ \A h \in Handlers : TimesCalled(busCalled, h) <= 1
       /\ SelectSeq(busSnap, LAMBDA h : h \in Range(busCalled))
            = SelectSeq(busCalled, LAMBDA h : h \in Range(busSnap))]_vars

\* C18: when emit returns after callbacks threw and none changed the
\* subscriptions, every subscribed callback, those after a throwing one
\* included, has been invoked exactly once, in order.
C18_ThrowingHandlerIsIsolated ==
  [][(busPc = "emit" /\ busPc' = "idle" /\ busListeners = busSnap) =>
       busCalled = busSnap]_vars

C18_Witness ==
  /\ busPc = "idle"
  /\ Len(busSnap) = MaxHandlers
  /\ busListeners = busSnap
  /\ busCalled = busSnap
  /\ busSnap[1] \in busThrew
  /\ busSnap[2] \notin busThrew

\* A legal target cell for a player standing at pos: inside the map,
\* walkable, and at most one level of elevation away.
LegalTarget(map, pos, t) ==
  /\ 0 <= t[1] /\ t[1] < MapWidth
  /\ 0 <= t[2] /\ t[2] < MapHeight
  /\ t \in Cells /\ map[t] \in {"grass", "forest"}
  /\ LET here == IF <<pos[1], pos[2]>> \in Cells
                 THEN TileElevation(map[<<pos[1], pos[2]>>]) ELSE 0
         diff == TileElevation(map[t]) - here
     IN diff <= 1 /\ diff >= -1

\* C19: a directional command's execute returns true and puts the player on
\* the target cell exactly when that cell is inside the map, walkable and at
\* most one level of elevation from the current cell; otherwise it returns
\* false and the position is unchanged.
C19_ExecuteMovesIffLegal ==
  [][mvLast'.op = "execute" =>
       LET t == mvLast'.target
       IN IF LegalTarget(mvMap, playerPos, t)
          THEN mvLast'.res = "true" /\ playerPos' = <<t[1], t[2], playerPos[3]>>
          ELSE mvLast'.res = "false" /\ playerPos' = playerPos]_vars

C19_Witness ==
  /\ mvLast.op = "execute"
  /\ mvLast.res = "false"
  /\ mvLast.target \in Cells
  /\ mvMap[mvLast.target] = "grass"
  /\ <<playerPos[1], playerPos[2]>> \in Cells
  /\ mvMap[<<playerPos[1], playerPos[2]>>] = "mountain"

\* C20: handleInput and moveTo change the position only to a legal target
\* cell, and a request for a cell that is not legal returns success = false
\* and leaves the position unchanged.
C20_ServiceMovesOnlyToLegalCells ==
  [][(mvLast'.op \in {"handleInput", "moveTo"} /\ mvLast'.target # <<>>) =>
       IF LegalTarget(mvMap, playerPos, mvLast'.target)
       THEN playerPos' # playerPos =>
              <<playerPos'[1], playerPos'[2]>> = mvLast'.target
       ELSE mvLast'.res = "false" /\ playerPos' = playerPos]_vars

\* C21: when undo is called right after an execute of the same command that
\* returned true, it returns true, puts the player back on the exact
\* (x, y, z) it had before the move and sets the animation type to idle.
C21_UndoInvertsExecute ==
  [][(mvLast.op = "cmdExecute" /\ mvLast.res = "true" /\ mvLast'.op = "undo") =>
       /\ mvLast'.res = "true"
       /\ playerPos' = <<playerPos[1] - Delta(cmd.dir)[1],
                         playerPos[2] - Delta(cmd.dir)[2], playerPos[3]>>
       /\ playerAnim' = "idle"]_vars

C21_Witness ==
  /\ mvLast.op = "undo"
  /\ mvLast.res = "true"
  /\ playerAnim = "idle"
  /\ cmd.prev = playerPos
  /\ <<playerPos[1], playerPos[2]>> \in Cells

\* The command a key stands for, "null" for a key no handler knows.
CommandOfKey(key) ==
  CASE key \in {"w", "ArrowUp"} -> "north"
    [] key = "a" -> "west"
    [] key = "s" -> "south"
    [] key = "d" -> "east"
    [] key = " " -> "idle"
    [] OTHER -> "null"

\* C22: a recognized key's command joins the queue at its tail and an unknown
\* key yields null and queues nothing; the drain always executes the command
\* at the head of the queue and appends its result to the results; and when
\* executeCommands returns from a drain the queue is empty and the results of
\* the commands it executed are returned, in the order it executed them.
C22_DrainIsFifo ==
  [][inLast' # inLast =>
       /\ inLast'.op = "processInput" =>
            IF CommandOfKey(inLast'.key) = "null"
            THEN inLast'.res = <<>> /\ inQueue' = inQueue
            ELSE inQueue' = inQueue \o <<CommandOfKey(inLast'.key)>>
       /\ inLast'.op = "execute" =>
            /\ inQueue # <<>>
            /\ inLast'.res = <<inQueue[1]>>
            /\ inQueue' = SubSeq(inQueue, 2, Len(inQueue))
            /\ Len(inResults') = Len(inResults) + 1
            /\ SubSeq(inResults', 1, Len(inResults)) = inResults
            /\ inResults'[Len(inResults')].command = inQueue[1]
       /\ (inProcessing /\ ~inProcessing') =>
            /\ inQueue' = <<>>
            /\ inLast'.op = "executeCommands"
            /\ inLast'.res = inResults]_vars

C22_Witness ==
  /\ ~inProcessing
  /\ inLast.op = "executeCommands"
  /\ Len(inLast.res) = 2
  /\ inLast.res[1].command = "north"
  /\ inLast.res[1].success = "false"
  /\ inLast.res[2].command = "east"
  /\ inLast.res[2].success = "true"
  /\ inQueue = <<>>

\* C23: executeCommands called while a drain is in progress returns an empty
\* list and executes nothing; a command queued by processInput during the
\* drain is accepted, and the drain does not end while a command is queued.
C23_DrainIsNotReentrant ==
  [][(inProcessing /\ inLast' # inLast) =>
       /\ (inLast'.op = "executeCommands" /\ inProcessing') =>
            /\ inLast'.st = "returned"
            /\ inLast'.res = <<>>
            /\ UNCHANGED <<inQueue, inResults, playerPos, playerDir, playerAnim>>
       /\ (inLast'.op = "processInput" /\ CommandOfKey(inLast'.key) # "null") =>
            /\ inProcessing'
            /\ inQueue' = inQueue \o <<CommandOfKey(inLast'.key)>>
       /\ ~inProcessing' => inQueue = <<>>]_vars

C23_Witness ==
  /\ ~inProcessing
  /\ inLast.op = "executeCommands"
  /\ Len(inLast.res) > MaxQueue

C25_StopsOnReachingLastFrame ==
  ~anim.isLooping =>
    /\ anim.currentFrame <= anim.totalFrames - 1
    /\ (anim.currentFrame = anim.totalFrames - 1 /\ animLast.op = "update") =>
         ~anim.isPlaying /\ IsComplete(anim)

\* C25, amended: a non-looping animation never goes beyond frame N-1; an
\* update that finds it on frame N-1 leaves it there with isComplete() true,
\* and stops it playing if a frame interval has passed; an update of a
\* stopped animation changes nothing.
C25_ClampsAndStopsAtNextFrame ==
  [][(animLast'.op = "update" /\ animLast'.updates # animLast.updates
      /\ ~anim.isLooping) =>
       /\ anim'.currentFrame <= anim.totalFrames - 1
       /\ anim.currentFrame = anim.totalFrames - 1 =>
            /\ anim'.currentFrame = anim.totalFrames - 1
            /\ ~anim'.isLooping
            /\ anim'.currentFrame >= anim'.totalFrames - 1
            /\ (anim.isPlaying /\ animLast'.due) => ~anim'.isPlaying
       /\ ~anim.isPlaying => anim' = anim]_vars

C25_Witness ==
  /\ ~anim.isLooping
  /\ animLast.op = "update"
  /\ animLast.due
  /\ animLast.advances = anim.totalFrames
  /\ anim.currentFrame = anim.totalFrames - 1
  /\ ~anim.isPlaying

\* C26: once a player:moved event for the entity has reached the Animation
\* System, continued update ticks eventually lead it to emit the walk
\* completion event with the entity's animation back on idle.
C26_WalkEventuallyCompletes ==
  asMoved ~> ("walk_completed" \in asEvents /\ anim.type = "idle")

\* C27: addItemInstance of an instance that is not held, on an inventory at
\* capacity, merges into the slot that holds the same stackable item id
\* when the combined quantity fits within maxStack, and returns true; in
\* every other case at capacity it returns false and leaves the slots as
\* they were.
C27_FullInventoryMergesPartialStack ==
  [][(/\ invVars' # invVars
      /\ invLast'.op = "addItemInstance"
      /\ ~HasUid(invLast'.uid)
      /\ IsFull)
     => LET id == invLast'.item
            q == invLast'.quantity
            i == FindItemByItemId(id)
        IN IF /\ i > 0
              /\ ItemStackable(id)
              /\ invNewItems[i].quantity + q <= ItemMaxStack(id)
           THEN /\ invLast'.ok
                /\ invNewItems' =
                     [invNewItems EXCEPT ![i].quantity = @ + q]
           ELSE /\ ~invLast'.ok
                /\ invNewItems' = invNewItems]_vars

RECURSIVE TotalOf(_, _)
TotalOf(items, id) ==
  IF items = <<>> THEN 0
  ELSE (IF Head(items).item = id THEN Head(items).quantity ELSE 0)
       + TotalOf(Tail(items), id)

\* C29: an accepted addItemById of quantity q of a stackable item raises
\* the total quantity held of that item by exactly q, and when a slot
\* already holds the item and the sum fits within maxStack, the units go
\* into that slot and no slot is added.
C29_StackingConservesUnits ==
  [][(/\ invVars' # invVars
      /\ invLast'.op = "addItemById"
      /\ ItemStackable(invLast'.item)
      /\ invLast'.ok)
     => LET id == invLast'.item
            q == invLast'.quantity
            i == FindItemByItemId(id)
        IN /\ TotalOf(invNewItems', id) = TotalOf(invNewItems, id) + q
           /\ (/\ i > 0
               /\ invNewItems[i].quantity + q <= ItemMaxStack(id))
              => /\ Len(invNewItems') = Len(invNewItems)
                 /\ invNewItems'[i].quantity = invNewItems[i].quantity + q]_vars

InventoryEventTypes ==
  {"item_added", "item_removed", "gold_changed", "capacity_changed"}

\* C30: every call that changes the legacy items, the item instances, the
\* gold or the capacity of a constructed inventory emits at least one
\* inventory event, and each event carries the entity id, one of the event
\* types and a message.
C30_EveryMutationPublishesEvent ==
  [][(/\ <<invItems, invNewItems, invGold, invMaxCapacity>>'
           # <<invItems, invNewItems, invGold, invMaxCapacity>>
      /\ invLast'.op # "new")
     => /\ Len(invLast'.events) >= 1
        /\ \A k \in 1..Len(invLast'.events) :
             /\ invLast'.events[k].entityId = InvEntityId
             /\ invLast'.events[k].eventType \in InventoryEventTypes
             /\ invLast'.events[k].message # ""]_vars

Contains(words, word) == \E k \in 1..Len(words) : words[k] = word

\* C31: the item that createEnhancedItem returns shows every enhancement
\* that was asked for: it is enchanted and its name carries the enchantment
\* prefix when an enchantment was asked for, it reports the durability that
\* was asked for, and its name carries Masterwork and Legendary when those
\* were asked for.
C31_EnhancedItemShowsEveryEnhancement ==
  decRequest.item # "" =>
    /\ decRequest.enchantment.type # "" =>
         /\ IsEnchanted(decItem)
         /\ Contains(GetDisplayName(decItem),
                     EnchantmentPrefix(decRequest.enchantment.type))
    /\ decRequest.durability # 0 =>
         (decItem.decorator # "Item"
            /\ GetDurability(decItem) = decRequest.durability)
    /\ decRequest.masterwork =>
         Contains(GetDisplayName(decItem), "Masterwork")
    /\ decRequest.legendary # "" =>
         Contains(GetDisplayName(decItem), "Legendary")

\* C32: for every tile type all lookups ever made return one object, and
\* the factory holds as many flyweights as distinct types have been asked
\* for.
C32_OneFlyweightPerTypeEver ==
  /\ \A t \in TileTypes : Cardinality(fwReturned[t]) <= 1
  /\ GetFlyweightCount = Cardinality({t \in TileTypes : fwReturned[t] # {}})

\* C32, amended: for every tile type all lookups made since the last clear
\* return one object, which is the one the factory holds, and the factory
\* holds as many flyweights as distinct types have been asked for since the
\* last clear.
C32_OneFlyweightPerTypeSinceClear ==
  /\ \A t \in TileTypes :
       /\ Cardinality(fwSince[t]) <= 1
       /\ fwSince[t] # {} => fwSince[t] = {fwFlyweights[t]}
  /\ GetFlyweightCount = Cardinality({t \in TileTypes : fwSince[t] # {}})

C32_Witness ==
  /\ \E t \in TileTypes : Cardinality(fwReturned[t]) = 2 /\ fwSince[t] # {}
  /\ GetFlyweightCount >= 2

\* C33: after setTileAt(x, y, T) on an in-bounds coordinate getTile(x, y)
\* answers a tile of type T; on an out-of-bounds coordinate setTileAt
\* returns false, no child is touched and getTile(x, y) answers null.
C33_GetTileReturnsWhatWasSet ==
  [][(cmpVars' # cmpVars /\ cmpLast'.op = "setTileAt")
     => IF IsWithinBounds(cmpLast'.x, cmpLast'.y)
        THEN MapGetTile(cmpLayers', cmpLast'.x, cmpLast'.y) = cmpLast'.type
        ELSE /\ ~cmpLast'.ok
             /\ cmpLayers' = cmpLayers
             /\ MapGetTile(cmpLayers', cmpLast'.x, cmpLast'.y) = "null"]_vars

\* C35: when the caretaker's saveGame returns a memento, directly or within
\* autoSave, that memento is in the save set: the pruning that the
\* insertion triggers evicts other saves, never the one just inserted.
C35_NewSaveSurvivesPruning ==
  (last.op \in {"saveGame", "autoSave"} /\ last.res = "ok")
    => last.id \in Ids(mementos)

C35_Witness ==
  /\ last.op = "saveGame"
  /\ last.res = "ok"
  /\ Len(mementos) = maxSaves
  /\ nextId - 1 > maxSaves
  /\ last.id \in Ids(mementos)
  /\ \E i, j \in 1..Len(mementos) :
       mementos[i].timestamp < mementos[j].timestamp

\* C34: a saveGame or loadGame call on an enabled service publishes its
\* started event first and then exactly one of its completed and failed
\* events, failed exactly when the call rejects; on a disabled service the
\* call rejects and publishes nothing.
C34_LifecycleEventsBracketEachCall ==
  \A op \in {"save", "load"} :
    last.op = (IF op = "save" THEN "svcSaveGame" ELSE "svcLoadGame") =>
      IF svcEnabled
      THEN /\ Len(svcEvents) = 2
           /\ svcEvents[1] = op \o "_started"
           /\ svcEvents[2] \in {op \o "_completed", op \o "_failed"}
           /\ svcEvents[2] = op \o "_failed" <=> last.res = "throw"
      ELSE /\ svcEvents = <<>>
           /\ last.res = "throw"

C34_Witness ==
  /\ last.op = "svcLoadGame"
  /\ svcEnabled
  /\ svcEvents = <<"load_started", "load_completed">>
  /\ last.res = "ok"

\* C36: a saveGame whose write to local storage fails rejects and publishes
\* save_failed, and the memento it made is in the caretaker's save set
\* while the stored array does not hold it.
C36_FailedWriteLeavesMementoInMemory ==
  (last.op = "svcSaveGame" /\ svcEnabled /\ ~svcWriteOk) =>
    /\ last.res = "throw"
    /\ svcEvents = <<"save_started", "save_failed">>
    /\ nextId - 1 \in Ids(mementos)
    /\ StoredIds(storage) # [i \in 1..Len(mementos) |-> mementos[i].id]

\* C37: a handleInput call of an enabled service with a recognized key runs
\* the command and leaves it at the end of the input queue, one entry
\* longer than before; no other handleInput call changes the queue; and the
\* queue gets shorter only in clearQueue and setEnabled(false), which empty
\* it.
C37_HandleInputLeavesCommandQueued ==
  [][/\ (mvLast'.op = "handleInput" /\ mvLast'.res # "null") =>
          /\ Len(inQueue') = Len(inQueue) + 1
          /\ SubSeq(inQueue', 1, Len(inQueue)) = inQueue
     /\ (mvLast'.op = "handleInput" /\ mvLast'.res = "null") =>
          inQueue' = inQueue
     /\ Len(inQueue') < Len(inQueue) =>
          /\ inQueue' = <<>>
          /\ \/ mvLast'.op = "clearQueue"
             \/ mvLast'.op = "setEnabled" /\ ~mvEnabled']_vars

C37_Witness ==
  /\ mvLast.op = "handleInput"
  /\ mvLast.res = "true"
  /\ mvEnabled
  /\ Len(inQueue) = MaxQueue
  /\ playerPos \in {<<1, 0, 0>>, <<0, 1, 0>>}

\* C38: with the map left as it was when the caller made its first command,
\* a player that stood on an in-bounds walkable cell then stands on one
\* after every execute() and undo() of the caller's commands, in any order.
C38_CommandsKeepPlayerOnWalkableCell ==
  heldStart = "walkable" => OnWalkableCell(mvMap, playerPos)

C38_Witness ==
  /\ heldStart = "walkable"
  /\ \E c \in Cells : ~IsWalkable(mvMap, c[1], c[2])
  /\ Len(heldCmds) = 2
  /\ heldCmds[1].prev # <<>>
  /\ heldCmds[2].prev # <<>>
  /\ mvLast.op = "undo"
  /\ mvLast.res = "true"
  /\ playerPos = heldCmds[1].prev
  /\ playerPos # heldCmds[2].prev
  /\ heldCmds[2].prev # <<heldCmds[1].prev[1] + Delta(heldCmds[1].dir)[1],
                          heldCmds[1].prev[2] + Delta(heldCmds[1].dir)[2], 0>>

\* The place of a topic in the cascade.
TopicRank(topic) ==
  CASE topic = "saveLoad:event" -> 1
    [] topic = "saveLoad:system_event" -> 2
    [] topic = "saveLoad:manager_event" -> 3

\* C39: the emit of a saveLoad:event returns.  While it runs, every emit in
\* progress is on a later topic than the emit it runs inside; when it has
\* returns, saveLoad:system_event has carried one event per SaveLoadSystem
\* and saveLoad:manager_event one event per SaveLoadManager for the service
\* event and one for each system event.
C39_CascadeTerminates ==
  /\ [](\A i \in 1..(Len(casStack) - 1) :
          TopicRank(casStack[i].topic) < TopicRank(casStack[i + 1].topic))
  /\ [][(casStack # <<>> /\ casStack' = <<>>) =>
          /\ casCount'["saveLoad:event"] = 1
          /\ casCount'["saveLoad:system_event"] =
               Subscribed("saveLoad:event", "handleSaveLoadEvent")
          /\ casCount'["saveLoad:manager_event"] =
               Subscribed("saveLoad:event", "handleServiceEvent")
                 * (1 + casCount'["saveLoad:system_event"])]_vars
  /\ (casStack # <<>>) ~> (casStack = <<>>)

C39_Witness ==
  /\ casStack = <<>>
  /\ casCount["saveLoad:event"] = 1
  /\ casCount["saveLoad:system_event"] = MaxSystems
  /\ casCount["saveLoad:manager_event"] = MaxManagers * (1 + MaxSystems)
====
